---- MODULE Spec2Model ----
(***************************************************************************)
(* A model of the Gilbert-Elliot channel data generators of deepchannel:   *)
(*   src/gilbertElliot/gilbertElliotDataGen.py  (GilEllDataGen,             *)
(*        toeplitzData, convertToBatched)                                   *)
(*   src/gilbertElliotDataGen.py                (the older GilEllDataGen    *)
(*        and toeplitzData)                                                 *)
(*   src/mismatch_data_gen.py                   (ARCoeffecientGeneration,   *)
(*        ARDatagenMismatch)                                                *)
(* together with matSave, the Riccati block, GilElDataGenWrapper and        *)
(* GilElTestDataGen of the first file, GilEllTrainingDataGen of the second, *)
(* and the log-file selection and epoch loop of src/TCN/estimator.py.       *)
(*                                                                         *)
(* Numbers.  Complex samples are pairs <<re, im>> of integers.  The unit   *)
(* of every sample is 1/sqrt(2), so that the division by np.sqrt(2) of     *)
(* each Gaussian draw is the identity on the integer drawn; sqrtQ and      *)
(* sqrtR stand for np.sqrt(Q_diag) and np.sqrt(R).  Probabilities are      *)
(* integer weights over the denominator PDen.  AR coefficients of the      *)
(* mismatch generator are integers over the denominator CDen.              *)
(* Arrays keep the source's 0-based indices: an array is a function on     *)
(* 0..n-1, and a cell of an np.empty array that was never written holds    *)
(* Uninit.                                                                 *)
(***************************************************************************)
EXTENDS Integers, Sequences, FiniteSets, TLC

VARIABLES
    \* ---- numpy's global generator and one GilEllDataGen caller ----
    rng,            \* state of the global np.random generator
    params,         \* the params tuple handed to GilEllDataGen (same for each call)
    seed,           \* the seed argument (same for each call)
    pc,             \* "idle" | "loop" | "raised" ("off" when not modelled): position in GilEllDataGen
    ge_error,       \* "none", or the kind of the exception that left GilEllDataGen
    i,              \* loop index of the main loop
    MarkovState,    \* "good" | "bad" | "unset"
    x_current,      \* the 2-component complex state
    x, z,           \* the trajectories being written
    channelStates,  \* the per-step coefficient pair
    v_all, w_all,   \* the process and observation noise of each step (the debug record)
    x_start,        \* the initial 2-component state (the debug record)
    rets,           \* the tuples returned by the calls made so far
    \* ---- ARCoeffecientGeneration ----
    arCoeffMeans, arCoeffecientNoiseVar, arCoeffsMatrix, goodCoeffs, ar_pc, rejected,
    \* ---- toeplitzData ----
    tz_file,        \* "new" (gilbertElliot/) | "old" (top-level file)
    sequenceData, numColumns, tz_pc, tz_i, tz_error,
    toeplitzObservationStates, toeplitzFinalTrueStates, toeplitzAllTrueStates,
    \* ---- convertToBatched ----
    systemData, observedData, batchSize, cb_pc, cb_i, trueState, measuredState,
    \* ---- GilEllDataGen calls whose loop steps interleave in one process ----
    runs,           \* per call: its seed argument, position and locals
    run_params,     \* the params tuple handed to both calls
    np_random,      \* state of the global np.random generator the calls draw from
    \* ---- ARDatagenMismatch ----
    mm_params,      \* simLength, AR_coeffecient_noise_var, batchSize, sequenceLength
    mm_seed,        \* the seed argument
    torch_rng,      \* state of torch's global generator
    mm_pc,          \* "call" | "element" | "sequence" | "save" | "returned" | "spinning"
    mm_i, mm_j, mm_m,   \* the loop indices i (series), j (batch element), m (step)
    mm_F,           \* F, the coefficient matrix of the element
    mm_v, mm_w,     \* the noise tensors v (2 x 2) and w (2)
    x_complex, z_complex,
    all_xs,         \* every true state, [j][current/previous][re/im][m][i]
    mm_x, mm_z,     \* the returned tensors x [j][row][i] and z [j][re/im][m][i]
    \* ---- matSave ----
    ms_dirs,        \* the directories that exist
    ms_files,       \* the files that exist: path |-> content
    ms_args,        \* directory, basename
    ms_pc,          \* "call" | "search" | "save" | "returned" ("off" when not modelled)
    logNumber, logName,
    ms_ret,         \* the value returned
    \* ---- the log file of the TCN estimator processes ----
    logs_dirs,      \* the directories that exist
    logs,           \* the log files that exist: path |-> content
    est_pc,         \* per process: "start" | "mkdir" | "search" | "chosen" | "training" | "done" | "raised"
    est_logNumber, est_logName,
    \* ---- the epoch loop of the TCN estimator ----
    epochs,
    evalLossOf,     \* the loss evaluate() returns for each parameter value
    tcn_heap,       \* object |-> the parameters it holds
    model, modelBEST,   \* references to model objects
    bestloss, ep, tloss,
    tcn_pc,         \* "train" | "evaluate" | "tested" ("off" when not modelled)
    trained,        \* the parameters of model at the end of each epoch
    evaluated,      \* the evaluation loss of each epoch
    tested,         \* the parameters test() ran with
    \* ---- GilEllTrainingDataGen (older file) ----
    tg_args,        \* sequenceLength, numSequences, the coefficients, randSeed
    tg_rng,         \* state of the global np.random generator
    tg_pc,          \* "call" | "good" | "bad" | "shuffled" | "returned" ("off" when not modelled)
    tg_i,           \* the loop index i
    tg_sequenceData,    \* the tuple the last GilEllDataGen call returned
    tg_out,         \* finalTrueStates, observationStates, allTrueStates
    shuffleIndexes,
    tg_writes,      \* per output column, the sequences written to it, in order
    tg_ret,         \* the data tuple returned
    \* ---- GilElDataGenWrapper ----
    wr_args,        \* the keyword arguments of the call
    wr_rng,         \* state of the global np.random generator
    wr_pc,          \* "call" | "generated" | "windowing" | "saving" | "returned" | "raised"
    longSequence,   \* the tuple (x, z, channelStates) handed on to toeplitzData
    wr_data,        \* what toeplitzData returned
    wr_info,        \* the info record returned
    \* ---- GilElTestDataGen ----
    td_args,        \* the keyword arguments of the call
    td_rng,         \* state of the global np.random generator
    td_pc,          \* "call" | "loop" | "returned" | "raised" ("off" when not modelled)
    td_k,           \* the loop index k
    trueStateTEST, measuredStateTEST, testDataInfo, LSandKFTestData,
    \* ---- the Riccati block of GilEllDataGen, over two calls ----
    rc_args,        \* the arguments of the call in progress
    rc_rng,         \* state of the global np.random generator
    rc_pc,          \* "idle" | "loop" | "generated" ("off" when not modelled)
    rc_run,         \* the other locals of the call in progress
    riccatiConvergences,
    rc_solved,      \* the values solve_discrete_are has returned, by its arguments
    rc_rets         \* what the calls made so far returned or raised

geVars == <<rng, params, seed, pc, ge_error, i, MarkovState, x_current, x, z, channelStates,
           v_all, w_all, x_start, rets>>
arVars == <<arCoeffMeans, arCoeffecientNoiseVar, arCoeffsMatrix, goodCoeffs, ar_pc, rejected>>
tzVars == <<tz_file, sequenceData, numColumns, tz_pc, tz_i, tz_error,
            toeplitzObservationStates, toeplitzFinalTrueStates, toeplitzAllTrueStates>>
cbVars == <<systemData, observedData, batchSize, cb_pc, cb_i, trueState, measuredState>>
parVars == <<runs, run_params, np_random>>
mmVars == <<mm_params, mm_seed, torch_rng, mm_pc, mm_i, mm_j, mm_m, mm_F, mm_v, mm_w,
           x_complex, z_complex, all_xs, mm_x, mm_z>>
coreVars == <<geVars, arVars, tzVars, cbVars, parVars, mmVars>>
msVars == <<ms_dirs, ms_files, ms_args, ms_pc, logNumber, logName, ms_ret>>
\* the components of the later sections
estVars == <<logs_dirs, logs, est_pc, est_logNumber, est_logName>>
tcnVars == <<epochs, evalLossOf, tcn_heap, model, modelBEST, bestloss, ep, tloss, tcn_pc,
             trained, evaluated, tested>>
tgVars == <<tg_args, tg_rng, tg_pc, tg_i, tg_sequenceData, tg_out, shuffleIndexes, tg_writes,
            tg_ret>>
wrVars == <<wr_args, wr_rng, wr_pc, longSequence, wr_data, wr_info>>
tdVars == <<td_args, td_rng, td_pc, td_k, trueStateTEST, measuredStateTEST, testDataInfo,
            LSandKFTestData>>
rcVars == <<rc_args, rc_rng, rc_pc, rc_run, riccatiConvergences, rc_solved, rc_rets>>
extVars == <<msVars, estVars, tcnVars, tgVars, wrVars, tdVars, rcVars>>
vars == <<geVars, arVars, tzVars, cbVars, parVars, mmVars, extVars>>

-----------------------------------------------------------------------------
(* Bounds of the model, and the denominators of its fixed-point numbers *)
RngMod == 16
MaxSeed == 2
PDen == 2
MaxSeqLen == 2
MaxCalls == 2
CDen == 2
MaxMean == 4
MaxNoiseVar == 2
MaxDraw == 1
RetryCeiling == 3
MaxTzLen == 3
MaxSamples == 4
MaxBatch == 3
MaxObsLen == 2
MaxSimLength == 2

Uninit == <<"uninit">>
\* a float cell of an np.empty array (or torch.empty tensor) that was never
\* written: a value no sample of the model takes
UninitReal == 0 - 1000

CAdd(a, b) == <<a[1] + b[1], a[2] + b[2]>>
CScale(k, a) == <<k * a[1], k * a[2]>>
CZero == <<0, 0>>

-----------------------------------------------------------------------------
(* The pseudo-random generator: a deterministic function of its state.    *)
RngAdv(s) == (5 * s + 3) % RngMod

\* np.random.seed(seed): the state is a function of the seed alone
SeedState(s) == (7 * s + 1) % RngMod

RECURSIVE RngSeq(_, _)
\* the n states the generator passes through in n successive draws
RngSeq(s, n) == IF n = 0 THEN << >> ELSE <<RngAdv(s)>> \o RngSeq(RngAdv(s), n - 1)

\* a uniform sample of [0,1), as a numerator over PDen
Uniform(raw) == (raw * PDen) \div RngMod
\* a standard normal sample, in the model's unit
Randn(raw) == (raw % 3) - 1

RngAfter(s, draws) == IF Len(draws) = 0 THEN s ELSE draws[Len(draws)]

\* np.random.choice(states, p=weights): cdf = cumsum(p)/sum(p); the index is
\* cdf.searchsorted(u, side='right'), the number of cdf entries <= u
Choice(states, weights, u) ==
    LET total == weights[1] + weights[2]
        idx == Cardinality({k \in 1..2 :
                    (IF k = 1 THEN weights[1] ELSE total) * PDen <= u * total})
    IN states[idx + 1]

-----------------------------------------------------------------------------
(* GilEllDataGen, src/gilbertElliot/gilbertElliotDataGen.py                *)

Regimes == {"good", "bad"}
StartPolicies == {"good", "bad", "random"}
SeedVals == -1..MaxSeed
\* the (goodCoeffs, badCoeffs) pairs the model draws params[1] from
CoeffChoices == { <<<<1, 0>>, <<1, -1>>>>, <<<<0, 1>>, <<2, -1>>>> }

\* p and q one grid step below 0 and above 1 as well
ProbabilityGrid == (-1)..(PDen + 1)
\* the parameter tuples with p or q outside [0, 1]
InvalidParamSpace ==
    { par \in [p : ProbabilityGrid, q : ProbabilityGrid, coeffs : CoeffChoices,
                sequenceLength : 1..MaxSeqLen, sqrtQ : {1}, sqrtR : {1},
                startState : StartPolicies] :
        par.p \notin 0..PDen \/ par.q \notin 0..PDen }

ParamSpace ==
    [p : 0..PDen, q : 0..PDen, coeffs : CoeffChoices, sequenceLength : 1..MaxSeqLen,
     sqrtQ : {1}, sqrtR : {1}, startState : StartPolicies]

\* if (seed > 0): np.random.seed(seed)
SeedAppliesLate(s) == s > 1
SeedApplies(s) == s > 0

\* a misspelt state name in the second row
transitionStateArrayTypo == << <<"good", "bad">>, <<"bda", "good">> >>
transitionStateArray == << <<"good", "bad">>, <<"bad", "good">> >>

\* the swapped weights of the older file
transitionProbabiltyArraySwapped(p, q) == << <<p, PDen - p>>, <<q, PDen - q>> >>
\* ((1-p, p), (1-q, q))
transitionProbabiltyArray(p, q) == << <<PDen - p, p>>, <<PDen - q, q>> >>

\* F = [[a1, a2], [0, 1]]: the second component is not shifted
MatVecNoShift(coeffs, xc) ==
    << CAdd(CScale(coeffs[1], xc[1]), CScale(coeffs[2], xc[2])), xc[2] >>
\* F = [[a1, a2], [1, 0]] applied to the 2-component complex state
MatVec(coeffs, xc) ==
    << CAdd(CScale(coeffs[1], xc[1]), CScale(coeffs[2], xc[2])), xc[1] >>

CoeffsOf(state, par) == IF state = "good" THEN par.coeffs[1] ELSE par.coeffs[2]

EmptyArray(n) == [k \in 0..(n - 1) |-> Uninit]

\* line 253: range(0, sequenceLength + 1), the number of loop iterations
LoopStepsShort(sequenceLength) == sequenceLength
LoopSteps(sequenceLength) == sequenceLength + 1

\* np.random.choice(..., p=weights) raises ValueError, before it draws, when
\* a weight is negative or the weights do not sum to 1
ChoiceRejects(weights) ==
    \/ \E k \in 1..2 : weights[k] < 0
    \/ weights[1] + weights[2] # PDen

\* lines 257-302: what each successive draw of loop iteration k is used for,
\* in the order the statements consume the generator
DrawOrderObsFirst(k) ==
    (IF k = 0 THEN << >> ELSE <<"transition">>)
    \o <<"rObsNoise", "iObsNoise", "rSysNoise", "rSysNoise", "iSysNoise", "iSysNoise">>
    \o (IF k = 0 THEN <<"x0re", "x0re", "x0im", "x0im">> ELSE << >>)
DrawOrder(k) ==
    (IF k = 0 THEN << >> ELSE <<"transition">>)
    \o <<"rSysNoise", "rSysNoise", "iSysNoise", "iSysNoise", "rObsNoise", "iObsNoise">>
    \o (IF k = 0 THEN <<"x0re", "x0re", "x0im", "x0im">> ELSE << >>)

\* the position, in iteration k, of the n-th draw made for `use`
DrawPos(use, k, n) ==
    CHOOSE d \in 1..Len(DrawOrder(k)) :
        /\ DrawOrder(k)[d] = use
        /\ Cardinality({e \in 1..d : DrawOrder(k)[e] = use}) = n

\* lines 143-144, 174-184: the seeding and the starting Markov state, as a
\* function of the seed argument and the generator's state g
StartState(par, sd, g) ==
    LET s0 == IF SeedApplies(sd) THEN SeedState(sd) ELSE g
        draws == RngSeq(s0, IF par.startState = "random" THEN 1 ELSE 0)
    IN [MarkovState |->
            IF par.startState = "random"
            THEN Choice(<<"good", "bad">>, <<1, 1>>, Uniform(draws[1]))
            ELSE par.startState,
        rng |-> RngAfter(s0, draws)]

\* lines 253-308: loop iteration k from Markov state ms0, state xc0 and
\* generator state g: the exception that leaves it, or what it assigns
LoopBody(par, k, ms0, xc0, g) ==
    LET tpa == transitionProbabiltyArray(par.p, par.q)
        row == IF ms0 = "good" THEN 1 ELSE 2
        draws == RngSeq(g, Len(DrawOrder(k)))
        n(use, c) == Randn(draws[DrawPos(use, k, c)])
        ms == IF k = 0 THEN ms0
              ELSE Choice(transitionStateArray[row], tpa[row],
                          Uniform(draws[DrawPos("transition", k, 1)]))
        coeffs == CoeffsOf(ms, par)
        v == << <<par.sqrtQ * n("rSysNoise", 1), par.sqrtQ * n("iSysNoise", 1)>>, CZero >>
        w == <<par.sqrtR * n("rObsNoise", 1), par.sqrtR * n("iObsNoise", 1)>>
        xc == IF k = 0
              THEN << <<n("x0re", 1), n("x0im", 1)>>, <<n("x0re", 2), n("x0im", 2)>> >>
              ELSE LET fx == MatVec(coeffs, xc0)
                   IN <<CAdd(fx[1], v[1]), CAdd(fx[2], v[2])>>
    IN IF k # 0 /\ ms0 \notin Regimes
       THEN [error |-> "Exception", rng |-> g]                      \* line 266
       ELSE IF k # 0 /\ ChoiceRejects(tpa[row])
       THEN [error |-> "ValueError", rng |-> g]                     \* lines 260, 263
       ELSE IF ms \notin Regimes
       THEN [error |-> "Exception", rng |-> RngSeq(g, 1)[1]]        \* line 275
       ELSE [error |-> "none", MarkovState |-> ms, coeffs |-> coeffs, v |-> v, w |-> w,
             x_current |-> xc, z_current |-> CAdd(xc[1], w),
             rng |-> RngAfter(g, draws)]

\* the generator touches nothing of the other components
GEFrame == UNCHANGED <<arVars, tzVars, cbVars, parVars, mmVars, extVars>>

GEIdleInit ==
    /\ rng = 0 /\ params = << >> /\ seed = 0 /\ pc = "off" /\ i = 0
    /\ MarkovState = "unset" /\ x_current = << >> /\ x = << >> /\ z = << >>
    /\ channelStates = << >> /\ rets = << >>
    /\ ge_error = "none" /\ v_all = << >> /\ w_all = << >> /\ x_start = << >>

GEInitWith(space) ==
    /\ rng \in 0..(RngMod - 1)
    /\ params \in space
    /\ seed \in SeedVals
    /\ pc = "idle" /\ i = 0
    /\ MarkovState = "unset"
    /\ x_current = <<CZero, CZero>>
    /\ x = << >> /\ z = << >> /\ channelStates = << >>
    /\ ge_error = "none" /\ v_all = << >> /\ w_all = << >> /\ x_start = << >>
    /\ rets = << >>

\* the parameters of InitGE
GEInit == GEInitWith(ParamSpace)

\* lines 141-250: seeding, the starting Markov state, the pre-allocations
GECall ==
    /\ GEFrame
    /\ pc = "idle"
    /\ Len(rets) < MaxCalls
    /\ LET st == StartState(params, seed, rng)
       IN /\ MarkovState' = st.MarkovState
          /\ rng' = st.rng
    /\ x' = EmptyArray(params.sequenceLength + 1)
    /\ z' = EmptyArray(params.sequenceLength + 1)
    /\ channelStates' = EmptyArray(params.sequenceLength + 1)
    /\ v_all' = EmptyArray(params.sequenceLength + 1)
    /\ w_all' = EmptyArray(params.sequenceLength + 1)
    /\ x_start' = <<CZero, CZero>>
    /\ x_current' = <<CZero, CZero>>
    /\ i' = 0
    /\ pc' = "loop"
    /\ UNCHANGED <<params, seed, rets, ge_error>>

\* lines 253-308: one iteration of the main loop, or the exception that
\* leaves the function from it
GEStep ==
    /\ GEFrame
    /\ pc = "loop"
    /\ i < LoopSteps(params.sequenceLength)
    /\ LET r == LoopBody(params, i, MarkovState, x_current, rng)
       IN /\ rng' = r.rng
          /\ IF r.error # "none"
             THEN /\ pc' = "raised"
                  /\ ge_error' = r.error
                  /\ UNCHANGED <<i, MarkovState, x_current, x, z, channelStates,
                                 v_all, w_all, x_start>>
             ELSE /\ MarkovState' = r.MarkovState
                  /\ channelStates' = [channelStates EXCEPT ![i] = r.coeffs]
                  /\ v_all' = [v_all EXCEPT ![i] = r.v]
                  /\ w_all' = [w_all EXCEPT ![i] = r.w]
                  /\ x_start' = IF i = 0 THEN r.x_current ELSE x_start
                  /\ x_current' = r.x_current
                  /\ z' = [z EXCEPT ![i] = r.z_current]
                  /\ x' = [x EXCEPT ![i] = r.x_current[1]]
                  /\ i' = i + 1
                  /\ UNCHANGED <<pc, ge_error>>
    /\ UNCHANGED <<params, seed, rets>>

\* line 316: return((x, z, riccatiConvergences, channelStates))
GEReturn ==
    /\ GEFrame
    /\ pc = "loop"
    /\ i >= LoopSteps(params.sequenceLength)
    /\ rets' = Append(rets, [x |-> x, z |-> z, channelStates |-> channelStates])
    /\ pc' = "idle"
    /\ UNCHANGED <<rng, params, seed, i, MarkovState, x_current, x, z, channelStates,
                   ge_error, v_all, w_all, x_start>>


-----------------------------------------------------------------------------
(* GilEllDataGen called twice in one process, the loop steps of the two    *)
(* calls interleaving.  Each call has its own locals; np.random is the     *)
(* module-level generator of the process.                                  *)

Runs == 1..2

\* the locals of a call that has not started
FreshRun(sd) ==
    [seed |-> sd, pc |-> "idle", i |-> 0, MarkovState |-> "unset",
     x_current |-> <<CZero, CZero>>, x |-> << >>, z |-> << >>, channelStates |-> << >>]

\* lines 141-250 on the locals of one call
RunCall(par, run, g) ==
    LET st == StartState(par, run.seed, g)
    IN [run |-> [run EXCEPT !.pc = "loop", !.i = 0,
                            !.MarkovState = st.MarkovState,
                            !.x = EmptyArray(par.sequenceLength + 1),
                            !.z = EmptyArray(par.sequenceLength + 1),
                            !.channelStates = EmptyArray(par.sequenceLength + 1)],
        rng |-> st.rng]

\* lines 253-308 on the locals of one call
RunStep(par, run, g) ==
    LET r == LoopBody(par, run.i, run.MarkovState, run.x_current, g)
    IN [run |-> IF r.error # "none"
                THEN [run EXCEPT !.pc = "raised"]
                ELSE [run EXCEPT !.i = run.i + 1,
                                 !.MarkovState = r.MarkovState,
                                 !.channelStates[run.i] = r.coeffs,
                                 !.x_current = r.x_current,
                                 !.z[run.i] = r.z_current,
                                 !.x[run.i] = r.x_current[1]],
        rng |-> r.rng]

RECURSIVE RunLoop(_, _, _)
\* lines 253-316: the loop run to its end with nothing else drawing
RunLoop(par, run, g) ==
    IF run.pc # "loop" \/ run.i >= LoopSteps(par.sequenceLength)
    THEN run
    ELSE LET r == RunStep(par, run, g) IN RunLoop(par, r.run, r.rng)

\* lines 141-316: the call executed alone, from generator state g
RunAlone(par, sd, g) ==
    LET c == RunCall(par, FreshRun(sd), g) IN RunLoop(par, c.run, c.rng)

\* line 316: the arrays of the returned tuple
Returned(run) == [x |-> run.x, z |-> run.z, channelStates |-> run.channelStates]

ParInit ==
    /\ np_random \in 0..(RngMod - 1)
    /\ run_params \in ParamSpace
    /\ \E s1 \in 1..MaxSeed, s2 \in 1..MaxSeed :
        /\ s1 # s2
        /\ runs = <<FreshRun(s1), FreshRun(s2)>>

ParFrame == UNCHANGED <<geVars, arVars, tzVars, cbVars, mmVars, extVars, run_params>>

ParCall ==
    /\ ParFrame
    /\ \E r \in Runs :
        /\ runs[r].pc = "idle"
        /\ LET c == RunCall(run_params, runs[r], np_random)
           IN /\ runs' = [runs EXCEPT ![r] = c.run]
              /\ np_random' = c.rng

ParStep ==
    /\ ParFrame
    /\ \E r \in Runs :
        /\ runs[r].pc = "loop"
        /\ runs[r].i < LoopSteps(run_params.sequenceLength)
        /\ LET c == RunStep(run_params, runs[r], np_random)
           IN /\ runs' = [runs EXCEPT ![r] = c.run]
              /\ np_random' = c.rng

ParReturn ==
    /\ ParFrame
    /\ \E r \in Runs :
        /\ runs[r].pc = "loop"
        /\ runs[r].i >= LoopSteps(run_params.sequenceLength)
        /\ runs' = [runs EXCEPT ![r].pc = "returned"]
        /\ UNCHANGED np_random

-----------------------------------------------------------------------------
(* GilEllDataGen, src/gilbertElliotDataGen.py (the older file)             *)

\* ((p, 1-p), (q, 1-q))
transitionProbabiltyArrayOld(p, q) == << <<p, PDen - p>>, <<q, PDen - q>> >>

\* lines 59-159: the prologue is the newer file's, without channelStates
GEOldCall ==
    /\ GEFrame
    /\ pc = "idle"
    /\ Len(rets) < MaxCalls
    /\ LET s0 == IF SeedApplies(seed) THEN SeedState(seed) ELSE rng
           draws == RngSeq(s0, IF params.startState = "random" THEN 1 ELSE 0)
       IN /\ MarkovState' =
                IF params.startState = "random"
                THEN Choice(<<"good", "bad">>, <<1, 1>>, Uniform(draws[1]))
                ELSE params.startState
          /\ rng' = RngAfter(s0, draws)
    /\ x' = EmptyArray(params.sequenceLength + 1)
    /\ z' = EmptyArray(params.sequenceLength + 1)
    /\ x_current' = <<CZero, CZero>>
    /\ i' = 0
    /\ pc' = "loop"
    /\ UNCHANGED <<params, seed, rets, channelStates, ge_error, v_all, w_all, x_start>>

\* lines 162-205: one iteration of the main loop; at i = 0 x_current and
\* z_current keep their zeros
GEOldStep ==
    /\ GEFrame
    /\ pc = "loop"
    /\ i <= params.sequenceLength
    /\ LET nd == IF i = 0 THEN 6 ELSE 7
           draws == RngSeq(rng, nd)
           b == IF i = 0 THEN 0 ELSE 1
           tpa == transitionProbabiltyArrayOld(params.p, params.q)
           ms == IF i = 0 THEN MarkovState
                 ELSE IF MarkovState = "good"
                      THEN Choice(transitionStateArray[1], tpa[1], Uniform(draws[1]))
                      ELSE Choice(transitionStateArray[2], tpa[2], Uniform(draws[1]))
           coeffs == CoeffsOf(ms, params)
           n(k) == Randn(draws[b + k])
           v == << <<params.sqrtQ * n(1), params.sqrtQ * n(3)>>, CZero >>
           w == <<params.sqrtR * n(5), params.sqrtR * n(6)>>
           xc == IF i = 0
                 THEN x_current
                 ELSE LET fx == MatVec(coeffs, x_current)
                      IN <<CAdd(fx[1], v[1]), CAdd(fx[2], v[2])>>
           z_current == IF i = 0 THEN CZero ELSE CAdd(xc[1], w)
       IN /\ MarkovState' = ms
          /\ x_current' = xc
          /\ z' = [z EXCEPT ![i] = z_current]
          /\ x' = [x EXCEPT ![i] = xc[1]]
          /\ rng' = RngAfter(rng, draws)
    /\ i' = i + 1
    /\ UNCHANGED <<params, seed, pc, rets, channelStates, ge_error, v_all, w_all, x_start>>

\* line 207: return((x, z, riccatiConvergences))
GEOldReturn ==
    /\ GEFrame
    /\ pc = "loop"
    /\ i > params.sequenceLength
    /\ rets' = Append(rets, [x |-> x, z |-> z])
    /\ pc' = "idle"
    /\ UNCHANGED <<rng, params, seed, i, MarkovState, x_current, x, z, channelStates,
                   ge_error, v_all, w_all, x_start>>


-----------------------------------------------------------------------------
(* ARCoeffecientGeneration, src/mismatch_data_gen.py                       *)
(* A matrix entry e stands for e / CDen.  torch.randn is a free choice of  *)
(* the draw, which covers every state of torch's generator, seeded or not. *)

Abs(n) == IF n < 0 THEN -n ELSE n

\* torch.eye(2) with row 1 overwritten by row 0: [[1, 0], [1, 0]]
InitialMatrix == << <<CDen, 0>>, <<CDen, 0>> >>

Trace(m) == m[1][1] + m[2][2]
\* the determinant, over CDen^2
Det(m) == m[1][1] * m[2][2] - m[1][2] * m[2][1]
\* the discriminant of the characteristic polynomial, over CDen^2
Disc(m) == Trace(m) * Trace(m) - 4 * Det(m)

\* sqrt(d) > t and sqrt(d) < t, for d >= 0
SqrtGt(d, t) == t < 0 \/ d > t * t
SqrtLt(d, t) == t > 0 /\ d < t * t

\* some real eigenvalue (Trace +- sqrt(Disc)) / 2 lies outside [-1, 1]
RealEigOutside(m) ==
    LET tr == Trace(m)
        d == Disc(m)
    IN \/ SqrtGt(d, 2 * CDen - tr)
       \/ SqrtLt(d, tr - 2 * CDen)
       \/ SqrtLt(d, -2 * CDen - tr)
       \/ SqrtGt(d, tr + 2 * CDen)

\* line 41: torch.eig(...).eigenvalues is the 2 x 2 tensor of (real part,
\* imaginary part) rows; torch.abs and > 1 act on each entry, and line 43
\* asks whether any entry passed.
EigValsEvaluatedAny(m) ==
    IF Disc(m) >= 0
    THEN RealEigOutside(m)
    ELSE \/ Abs(Trace(m)) > 2 * CDen                 \* |re| > 1
         \/ -Disc(m) > 4 * CDen * CDen               \* |im| > 1

\* some eigenvalue has complex magnitude > 1; for a conjugate pair
\* |lambda|^2 is the determinant
SpectralRadiusAbove1(m) ==
    IF Disc(m) >= 0
    THEN RealEigOutside(m)
    ELSE Det(m) > CDen * CDen

Means == (-MaxMean)..MaxMean
NoiseDraws == (-MaxDraw)..MaxDraw

ARInit ==
    /\ arCoeffMeans \in Means \X Means
    /\ arCoeffecientNoiseVar \in 0..MaxNoiseVar
    /\ arCoeffsMatrix = InitialMatrix
    /\ goodCoeffs = FALSE
    /\ ar_pc = "loop"
    /\ rejected = 0

ARFrame == UNCHANGED <<geVars, tzVars, cbVars, parVars, mmVars, extVars>>

\* lines 30-44: one iteration of the rejection loop
ARDraw ==
    /\ ARFrame
    /\ ar_pc = "loop"
    /\ ~goodCoeffs
    /\ \E n0 \in NoiseDraws, n1 \in NoiseDraws :
        LET m == [arCoeffsMatrix EXCEPT
                    ![1][1] = arCoeffMeans[1] + n0 * arCoeffecientNoiseVar,
                    ![1][2] = arCoeffMeans[2] + n1 * arCoeffecientNoiseVar]
            ok == ~EigValsEvaluatedAny(m)
        IN /\ arCoeffsMatrix' = m
           /\ goodCoeffs' = ok
           /\ rejected' = IF ok \/ rejected >= RetryCeiling THEN rejected ELSE rejected + 1
    /\ UNCHANGED <<arCoeffMeans, arCoeffecientNoiseVar, ar_pc>>

\* lines 30, 45: the loop ends and the matrix is returned
ARReturn ==
    /\ ARFrame
    /\ ar_pc = "loop"
    /\ goodCoeffs
    /\ ar_pc' = "returned"
    /\ UNCHANGED <<arCoeffMeans, arCoeffecientNoiseVar, arCoeffsMatrix, goodCoeffs, rejected>>

-----------------------------------------------------------------------------
(* ARDatagenMismatch, src/mismatch_data_gen.py                             *)
(* torch's generator is the deterministic generator above.  The noise      *)
(* scale sqrt(0.1)/sqrt(2) is the same for v and w, and one noise unit is  *)
(* CDen^sequenceLength in the integers of the model, so that the division  *)
(* by CDen of each application of F is exact.                              *)

\* arCoeffMeans = torch.tensor([0.5, 0.4]), rounded to the grid of 1/CDen
MismatchCoeffMeans == <<(5 * CDen + 5) \div 10, (4 * CDen + 5) \div 10>>

NoiseUnit(sequenceLength) == CDen ^ sequenceLength

RECURSIVE CoeffecientLoop(_, _, _, _)
\* lines 30-44 with torch.randn drawn from generator state g: the matrix
\* accepted and the generator state after it.  After RngMod rejections the
\* generator has revisited a state, and the loop never ends.
CoeffecientLoop(means, noiseVar, g, tries) ==
    LET d == RngSeq(g, 2)
        m == [InitialMatrix EXCEPT ![1][1] = means[1] + Randn(d[1]) * noiseVar,
                                   ![1][2] = means[2] + Randn(d[2]) * noiseVar]
    IN IF ~EigValsEvaluatedAny(m)
       THEN [matrix |-> m, rng |-> d[2], spinning |-> FALSE]
       ELSE IF tries >= RngMod
       THEN [matrix |-> m, rng |-> d[2], spinning |-> TRUE]
       ELSE CoeffecientLoop(means, noiseVar, d[2], tries + 1)

\* torch.matmul(F, x_complex), F's entries over CDen
MatMul(Fm, xm) ==
    << <<(Fm[1][1] * xm[1][1] + Fm[1][2] * xm[2][1]) \div CDen,
         (Fm[1][1] * xm[1][2] + Fm[1][2] * xm[2][2]) \div CDen>>,
       <<(Fm[2][1] * xm[1][1] + Fm[2][2] * xm[2][1]) \div CDen,
         (Fm[2][1] * xm[1][2] + Fm[2][2] * xm[2][2]) \div CDen>> >>

MatAdd(a, b) ==
    << <<a[1][1] + b[1][1], a[1][2] + b[1][2]>>, <<a[2][1] + b[2][1], a[2][2] + b[2][2]>> >>

\* the four labels with current and next exchanged
LabelRowsSwapped(xc) == <<xc[1][1], xc[2][1], xc[1][2], xc[2][2]>>
\* lines 219-222: x_complex[1,0], x_complex[0,0], x_complex[1,1], x_complex[0,1]
LabelRows(xc) == <<xc[2][1], xc[1][1], xc[2][2], xc[1][2]>>

\* torch.empty(n), dtype=torch.float
EmptyTensor(n) == [k \in 1..n |-> UninitReal]

\* torch.zeros of 3, 4 and 5 axes
Zeros3(d0, d1, d2) == [a \in 0..(d0 - 1) |-> [b \in 0..(d1 - 1) |-> [c \in 0..(d2 - 1) |-> 0]]]
Zeros4(d0, d1, d2, d3) == [a \in 0..(d0 - 1) |-> Zeros3(d1, d2, d3)]
Zeros5(d0, d1, d2, d3, d4) == [a \in 0..(d0 - 1) |-> Zeros4(d1, d2, d3, d4)]

MMParamSpace ==
    [simLength : 1..MaxSimLength, AR_coeffecient_noise_var : 0..MaxNoiseVar,
     batchSize : 1..MaxBatch, sequenceLength : 1..MaxSeqLen]

MMInit ==
    /\ mm_params \in MMParamSpace
    /\ mm_seed \in 0..MaxSeed
    /\ torch_rng \in 0..(RngMod - 1)
    /\ mm_pc = "call"
    /\ mm_i = 0 /\ mm_j = 0 /\ mm_m = 0 /\ mm_F = << >> /\ mm_v = << >> /\ mm_w = << >>
    /\ x_complex = << >> /\ z_complex = << >> /\ all_xs = << >>
    /\ mm_x = << >> /\ mm_z = << >>

MMFrame == UNCHANGED <<geVars, arVars, tzVars, cbVars, parVars, extVars>>

\* lines 96-145: the seeding and the pre-allocations
MMCall ==
    /\ MMFrame
    /\ mm_pc = "call"
    /\ torch_rng' = SeedState(mm_seed)
    /\ mm_x' = Zeros3(mm_params.batchSize, 4, mm_params.simLength)
    /\ mm_z' = Zeros4(mm_params.batchSize, 2, mm_params.sequenceLength, mm_params.simLength)
    /\ all_xs' = Zeros5(mm_params.batchSize, 2, 2, mm_params.sequenceLength + 1,
                        mm_params.simLength)
    /\ mm_v' = <<EmptyTensor(2), EmptyTensor(2)>>
    /\ mm_w' = EmptyTensor(2)
    /\ x_complex' = <<EmptyTensor(2), EmptyTensor(2)>>
    /\ z_complex' = EmptyTensor(2)
    /\ mm_i' = 0 /\ mm_j' = 0 /\ mm_m' = 0
    /\ mm_pc' = "element"
    /\ UNCHANGED <<mm_params, mm_seed, mm_F>>

\* lines 167-174: the head of the loops over i and j, and the element's F
MMElement ==
    /\ MMFrame
    /\ mm_pc = "element"
    /\ LET c == CoeffecientLoop(MismatchCoeffMeans, mm_params.AR_coeffecient_noise_var,
                                torch_rng, 0)
       IN /\ mm_F' = c.matrix
          /\ torch_rng' = c.rng
          /\ mm_pc' = IF c.spinning THEN "spinning" ELSE "sequence"
    /\ mm_m' = 0
    /\ UNCHANGED <<mm_params, mm_seed, mm_i, mm_j, mm_v, mm_w, x_complex, z_complex,
                   all_xs, mm_x, mm_z>>

\* lines 174-222: one iteration of the loop over m; after the last one the
\* loops over j and i move on
MMStep ==
    /\ MMFrame
    /\ mm_pc = "sequence"
    /\ mm_m < mm_params.sequenceLength + 1
    /\ LET sequenceLength == mm_params.sequenceLength
           d == RngSeq(torch_rng, 6)
           unit == NoiseUnit(sequenceLength)
           \* v[:,0] = rSysNoise, v[:,1] = iSysNoise: QChol keeps the first entry only
           v1 == << <<Randn(d[1]) * unit, Randn(d[3]) * unit>>, <<0, 0>> >>
           w1 == <<Randn(d[5]) * unit, Randn(d[6]) * unit>>
           xc == IF mm_m = 0 THEN << <<0, 0>>, <<0, 0>> >>
                 ELSE MatAdd(MatMul(mm_F, x_complex), v1)
           zc == IF mm_m = 0 THEN <<0, 0>>
                 ELSE <<xc[1][1] + w1[1], xc[1][2] + w1[2]>>
           lastOfBatch == mm_j + 1 = mm_params.batchSize
           lastOfSeries == mm_i + 1 = mm_params.simLength
       IN /\ torch_rng' = d[6]
          /\ mm_v' = v1
          /\ mm_w' = w1
          /\ x_complex' = xc
          /\ z_complex' = zc
          /\ all_xs' = [all_xs EXCEPT ![mm_j] =
                [r \in 0..1 |-> [c \in 0..1 |->
                    [all_xs[mm_j][r][c] EXCEPT ![mm_m][mm_i] = xc[r + 1][c + 1]]]]]
          /\ mm_z' = IF mm_m < sequenceLength
                     THEN [mm_z EXCEPT ![mm_j][0][mm_m][mm_i] = zc[1],
                                       ![mm_j][1][mm_m][mm_i] = zc[2]]
                     ELSE mm_z
          /\ mm_x' = IF mm_m = sequenceLength
                     THEN [mm_x EXCEPT ![mm_j] =
                            [row \in 0..3 |-> [mm_x[mm_j][row] EXCEPT ![mm_i] = LabelRows(xc)[row + 1]]]]
                     ELSE mm_x
          /\ mm_m' = mm_m + 1
          /\ IF mm_m < sequenceLength
             THEN UNCHANGED <<mm_i, mm_j, mm_pc>>
             ELSE /\ mm_j' = IF lastOfBatch THEN 0 ELSE mm_j + 1
                  /\ mm_i' = IF lastOfBatch THEN mm_i + 1 ELSE mm_i
                  /\ mm_pc' = IF lastOfBatch /\ lastOfSeries THEN "save" ELSE "element"
    /\ UNCHANGED <<mm_params, mm_seed, mm_F>>

\* lines 233-242: the tensors are saved and returned
MMReturn ==
    /\ MMFrame
    /\ mm_pc = "save"
    /\ mm_pc' = "returned"
    /\ UNCHANGED <<mm_params, mm_seed, torch_rng, mm_i, mm_j, mm_m, mm_F, mm_v, mm_w,
                   x_complex, z_complex, all_xs, mm_x, mm_z>>

-----------------------------------------------------------------------------
(* toeplitzData, src/gilbertElliot/gilbertElliotDataGen.py and the older   *)
(* src/gilbertElliotDataGen.py                                             *)

Min(a, b) == IF a < b THEN a ELSE b
Max(a, b) == IF a > b THEN a ELSE b

Real(c) == c[1]
Imag(c) == c[2]

\* arr[a:b] of Python, for 0 <= a: the cells a .. min(b, len) - 1, in order
PySlice(arr, a, b) ==
    LET n == Cardinality(DOMAIN arr)
        hi == Min(b, n)
    IN [k \in 1..Max(hi - a, 0) |-> arr[a + k - 1]]

\* numpy's assignment of a 1-D value to m cells: equal length, or a single
\* value repeated; anything else is a ValueError
Broadcast(vals, m) ==
    IF Len(vals) = m THEN vals
    ELSE IF Len(vals) = 1 THEN [k \in 1..m |-> vals[1]]
    ELSE <<"ValueError">>

\* sequenceData[0].shape[1] - 1
SequenceLengthOf(sd) == Cardinality(DOMAIN sd.x) - 1
\* numRows = sequenceLength - numColumns + 1
NumRowsShort(L, nc) == L - nc
NumRows(L, nc) == L - nc + 1
\* if (numRows < 1): raise
RejectsWindowLate(numRows) == numRows < 0
RejectsWindow(numRows) == numRows < 1

\* '...{1}...{2}'.format(sequenceLength, numColumns): the replacement fields
\* of the message and the number of positional arguments
MessageFields == {1, 2}
MessageArgs == {0, 1}
\* str.format raises IndexError for a field with no argument
FormatError == IF MessageFields \subseteq MessageArgs THEN "Exception" ELSE "IndexError"

EmptyReals(n) == [k \in 0..(n - 1) |-> UninitReal]
\* np.empty((d0, d1, d2)) and np.empty((d0, d2)), dtype=float
Empty3(d0, d1, d2) == [c \in 0..(d0 - 1) |-> [k \in 0..(d1 - 1) |-> EmptyReals(d2)]]
Empty2(d0, d2) == [c \in 0..(d0 - 1) |-> EmptyReals(d2)]

\* x[0, i+numColumns : i+numColumns+2], the older file's
FinalStatesSliceOld(xs, row, nc) == PySlice(xs, row + nc, row + nc + 2)
\* the slice one sample late
FinalStatesSliceShifted(xs, row, nc) == PySlice(xs, row + nc, row + nc + 2)
\* x[0, i+numColumns-1 : i+numColumns+1]
FinalStatesSlice(xs, row, nc) == PySlice(xs, row + nc - 1, row + nc + 1)

\* the slice one sample late
ObservationSliceLate(zs, row, nc) == PySlice(zs, row + 1, row + nc + 1)
\* z[0, i : i+numColumns]
ObservationSlice(zs, row, nc) == PySlice(zs, row, row + nc)

\* out[c, :, row] = vals  (vals 1-based, the cells 0-based)
SetColumn3(out, c, row, vals) ==
    [out EXCEPT ![c] = [k \in DOMAIN out[c] |-> [out[c][k] EXCEPT ![row] = vals[k + 1]]]]

\* out[c0 : c0+2, row] = vals
SetPair2(out, c0, row, vals) ==
    [out EXCEPT ![c0] = [out[c0] EXCEPT ![row] = vals[1]],
                ![c0 + 1] = [out[c0 + 1] EXCEPT ![row] = vals[2]]]

\* np.real and np.imag of a slice
Reals(sq) == [k \in 1..Len(sq) |-> Real(sq[k])]
Imags(sq) == [k \in 1..Len(sq) |-> Imag(sq[k])]

XVals == { <<1, 2>>, <<3, 4>> }
ZVals == { <<5, 6>>, <<7, 8>> }

TZInit ==
    /\ tz_file \in {"new", "old"}
    /\ \E L \in 1..MaxTzLen :
          sequenceData \in [x : [0..L -> XVals], z : [0..L -> ZVals]]
    /\ numColumns \in 1..(MaxTzLen + 1)
    /\ tz_pc = "call" /\ tz_i = 0 /\ tz_error = "none"
    /\ toeplitzObservationStates = << >>
    /\ toeplitzFinalTrueStates = << >>
    /\ toeplitzAllTrueStates = << >>

TZFrame == UNCHANGED <<geVars, arVars, cbVars, parVars, mmVars, extVars>>

\* lines 348-360 (236-251 of the older file): the numRows test and the allocations
TZCallBody ==
    LET sequenceLength == SequenceLengthOf(sequenceData)
        numRows == NumRows(sequenceLength, numColumns)
    IN IF RejectsWindow(numRows)
       THEN /\ tz_pc' = "raised"
            /\ tz_error' = FormatError
            /\ UNCHANGED <<toeplitzObservationStates, toeplitzFinalTrueStates,
                           toeplitzAllTrueStates>>
       ELSE /\ tz_pc' = "loop"
            /\ tz_error' = "none"
            /\ toeplitzObservationStates' = Empty3(2, numColumns, numRows)
            /\ toeplitzFinalTrueStates' = Empty2(4, numRows)
            /\ toeplitzAllTrueStates' = Empty3(2, numColumns + 1, numRows)

TZCall ==
    /\ TZFrame
    /\ tz_pc = "call" /\ tz_file = "new"
    /\ TZCallBody
    /\ tz_i' = 0
    /\ UNCHANGED <<tz_file, sequenceData, numColumns>>

TZCallOld ==
    /\ TZFrame
    /\ tz_pc = "call" /\ tz_file = "old"
    /\ TZCallBody
    /\ tz_i' = 0
    /\ UNCHANGED <<tz_file, sequenceData, numColumns>>

\* the number of windows the loop runs over: the last axis of the outputs
LoopRows == Cardinality(DOMAIN toeplitzFinalTrueStates[0])

\* one iteration of the loop, with the final-state samples `fin`
TZRowBody(fin) ==
    LET xs == sequenceData.x
        zs == sequenceData.z
        obs == ObservationSlice(zs, tz_i, numColumns)
        all == PySlice(xs, tz_i, tz_i + numColumns + 1)
        finR == Broadcast(Reals(fin), 2)
        finI == Broadcast(Imags(fin), 2)
    IN IF finR = <<"ValueError">>
       THEN /\ tz_pc' = "raised"
            /\ tz_error' = "ValueError"
            /\ UNCHANGED <<tz_i, toeplitzObservationStates, toeplitzFinalTrueStates,
                           toeplitzAllTrueStates>>
       ELSE /\ toeplitzObservationStates' =
                  SetColumn3(SetColumn3(toeplitzObservationStates, 0, tz_i, Reals(obs)),
                             1, tz_i, Imags(obs))
            /\ toeplitzFinalTrueStates' =
                  SetPair2(SetPair2(toeplitzFinalTrueStates, 0, tz_i, finR), 2, tz_i, finI)
            /\ toeplitzAllTrueStates' =
                  SetColumn3(SetColumn3(toeplitzAllTrueStates, 0, tz_i, Reals(all)),
                             1, tz_i, Imags(all))
            /\ tz_i' = tz_i + 1
            /\ UNCHANGED <<tz_pc, tz_error>>

\* lines 363-372 of src/gilbertElliot/gilbertElliotDataGen.py
TZRow ==
    /\ TZFrame
    /\ tz_pc = "loop" /\ tz_file = "new"
    /\ tz_i < LoopRows
    /\ TZRowBody(FinalStatesSlice(sequenceData.x, tz_i, numColumns))
    /\ UNCHANGED <<tz_file, sequenceData, numColumns>>

\* lines 254-263 of src/gilbertElliotDataGen.py
TZRowOld ==
    /\ TZFrame
    /\ tz_pc = "loop" /\ tz_file = "old"
    /\ tz_i < LoopRows
    /\ TZRowBody(FinalStatesSliceOld(sequenceData.x, tz_i, numColumns))
    /\ UNCHANGED <<tz_file, sequenceData, numColumns>>

\* line 373 (264): return
TZReturn ==
    /\ TZFrame
    /\ tz_pc = "loop"
    /\ tz_i >= LoopRows
    /\ tz_pc' = "returned"
    /\ UNCHANGED <<tz_file, sequenceData, numColumns, tz_i, tz_error,
                   toeplitzObservationStates, toeplitzFinalTrueStates,
                   toeplitzAllTrueStates>>

-----------------------------------------------------------------------------
(* convertToBatched, src/gilbertElliot/gilbertElliotDataGen.py             *)
(* systemData[c][n] is systemDataToBeConverted[c, n]; observedData[c][s][n] *)
(* is observedDataToBeFormatted[c, s, n].                                  *)

\* observedDataToBeFormatted.shape[2] and .shape[1]
NumSequencesOf(obs) == Cardinality(DOMAIN obs[0][0])
SeqLengthOf(obs) == Cardinality(DOMAIN obs[0])
\* int(numSequences/batchSize)
SeriesLength(n, bs) == n \div bs

\* the first column of batch i: i * batchSize
BatchFirstUnitStride(bi, bs) == bi
BatchFirst(bi, bs) == bi * bs

\* m[:, a:b] of a 2-D array and t[:, :, a:b] of a 3-D array, re-based at 0
SliceLast2(m, a, b) == [c \in DOMAIN m |-> [n \in 0..(b - a - 1) |-> m[c][a + n]]]
SliceLast3(t, a, b) ==
    [c \in DOMAIN t |-> [k \in DOMAIN t[c] |-> [n \in 0..(b - a - 1) |-> t[c][k][a + n]]]]

\* np.transpose of a 2-D array, and of a 3-D array (the axes reversed)
Transpose2(m) == [n \in DOMAIN m[0] |-> [c \in DOMAIN m |-> m[c][n]]]
Transpose3(t) ==
    [n \in DOMAIN t[0][0] |-> [k \in DOMAIN t[0] |-> [c \in DOMAIN t |-> t[c][k][n]]]]
\* np.swapaxes(t, 1, 2)
SwapAxes12(t) ==
    [n \in DOMAIN t |-> [c \in DOMAIN t[n][0] |-> [k \in DOMAIN t[n] |-> t[n][k][c]]]]

\* numpy's assignment of val to n rows: as many rows, or a single row
\* repeated; anything else is a ValueError
BroadcastRows(val, n) ==
    IF Cardinality(DOMAIN val) = n THEN val
    ELSE IF Cardinality(DOMAIN val) = 1 THEN [b \in 0..(n - 1) |-> val[0]]
    ELSE <<"ValueError">>

\* out[:, :, bi] = val  and  out[:, :, :, bi] = val
SetLast3(out, bi, val) ==
    [b \in DOMAIN out |-> [c \in DOMAIN out[b] |->
        [out[b][c] EXCEPT ![bi] = val[b][c]]]]
SetLast4(out, bi, val) ==
    [b \in DOMAIN out |-> [c \in DOMAIN out[b] |-> [k \in DOMAIN out[b][c] |->
        [out[b][c][k] EXCEPT ![bi] = val[b][c][k]]]]]

\* np.empty((batchSize, 2, seqLength, seriesLength))
Empty4(d0, d1, d2, d3) == [b \in 0..(d0 - 1) |-> Empty3(d1, d2, d3)]

\* the inputs: every cell carries its own sample number n, channel c and
\* position s, and a bit drawn per sample
SystemCell(salt, c, n) == 100 * salt[n] + 10 * n + c
ObservedCell(salt, c, s, n) == 1000 + 100 * salt[n] + 10 * n + 2 * s + c

CBInit ==
    /\ \E n \in 0..MaxSamples, sl \in 1..MaxObsLen :
        \E salt \in [0..(n - 1) -> {0, 1}] :
            /\ systemData = [c \in 0..3 |-> [k \in 0..(n - 1) |-> SystemCell(salt, c, k)]]
            /\ observedData = [c \in 0..1 |-> [s \in 0..(sl - 1) |->
                                  [k \in 0..(n - 1) |-> ObservedCell(salt, c, s, k)]]]
    /\ batchSize \in 1..MaxBatch
    /\ cb_pc = "call" /\ cb_i = 0
    /\ trueState = << >> /\ measuredState = << >>

CBFrame == UNCHANGED <<geVars, arVars, tzVars, parVars, mmVars, extVars>>

\* lines 34-39: the shapes and the allocations
CBCall ==
    /\ CBFrame
    /\ cb_pc = "call"
    /\ LET numSequences == NumSequencesOf(observedData)
           seqLength == SeqLengthOf(observedData)
           seriesLength == SeriesLength(numSequences, batchSize)
       IN /\ trueState' = Empty3(batchSize, 4, seriesLength)
          /\ measuredState' = Empty4(batchSize, 2, seqLength, seriesLength)
    /\ cb_i' = 0
    /\ cb_pc' = "loop"
    /\ UNCHANGED <<systemData, observedData, batchSize>>

\* range(seriesLength): the last axis of trueState
CBSeries == Cardinality(DOMAIN trueState[0][0])

\* lines 41-44: one iteration of the loop
CBBatch ==
    /\ CBFrame
    /\ cb_pc = "loop"
    /\ cb_i < CBSeries
    /\ LET a == BatchFirst(cb_i, batchSize)
           b == BatchFirst(cb_i + 1, batchSize)
           sys == BroadcastRows(Transpose2(SliceLast2(systemData, a, b)), batchSize)
           obs == BroadcastRows(SwapAxes12(Transpose3(SliceLast3(observedData, a, b))),
                                batchSize)
       IN IF sys = <<"ValueError">> \/ obs = <<"ValueError">>
          THEN /\ cb_pc' = "raised"
               /\ UNCHANGED <<trueState, measuredState, cb_i>>
          ELSE /\ trueState' = SetLast3(trueState, cb_i, sys)
               /\ measuredState' = SetLast4(measuredState, cb_i, obs)
               /\ cb_i' = cb_i + 1
               /\ UNCHANGED cb_pc
    /\ UNCHANGED <<systemData, observedData, batchSize>>

\* line 45: return(trueState, measuredState)
CBReturn ==
    /\ CBFrame
    /\ cb_pc = "loop"
    /\ cb_i >= CBSeries
    /\ cb_pc' = "returned"
    /\ UNCHANGED <<systemData, observedData, batchSize, cb_i, trueState, measuredState>>

-----------------------------------------------------------------------------
(* matSave, src/gilbertElliot/gilbertElliotDataGen.py lines 16-31          *)
(* The file system is the set of directories that exist and the files that *)
(* exist, a function from paths to contents.  A path is the triple         *)
(* <<directory, basename, n>> that stands for directory/basename{n}.mat.   *)

MaxFiles == 3

Basenames == {"GEData", "GETestData"}
DataDirectory == "./data"

\* directory + '/' + basename + str(logNumber) + '.mat'
LogNameOf(directory, basename, n) == <<directory, basename, n>>
\* path.exists
PathExists(files, name) == name \in DOMAIN files
\* logNumber += 1
IncrementTwice(n) == n + 2
Increment(n) == n + 1
\* hdf5s.savemat(name, data): creates the file or replaces its content
SaveMat(files, name, data) ==
    [f \in (DOMAIN files) \cup {name} |-> IF f = name THEN data ELSE files[f]]
\* the files of every basename that exist when matSave is called
FilesOn(present) == [f \in present |-> "old"]

MSInit ==
    /\ ms_dirs \in {{}, {DataDirectory}}
    /\ \E present \in SUBSET { LogNameOf(DataDirectory, b, n) : b \in Basenames, n \in 1..MaxFiles } :
          /\ (DataDirectory \notin ms_dirs => present = {})
          /\ ms_files = FilesOn(present)
    /\ ms_args \in [directory : {DataDirectory}, basename : Basenames]
    /\ ms_pc = "call"
    /\ logNumber = 0 /\ logName = << >> /\ ms_ret = << >>

MSFrame == UNCHANGED <<coreVars, estVars, tcnVars, tgVars, wrVars, tdVars, rcVars>>

\* lines 17-21: the directory is created when missing; logNumber = 0
MSCall ==
    /\ MSFrame
    /\ ms_pc = "call"
    /\ ms_dirs' = ms_dirs \cup {ms_args.directory}
    /\ logNumber' = 0
    /\ ms_pc' = "search"
    /\ UNCHANGED <<ms_files, ms_args, logName, ms_ret>>

\* lines 23-27: one iteration of the search loop
MSProbe ==
    /\ MSFrame
    /\ ms_pc = "search"
    /\ logNumber' = Increment(logNumber)
    /\ logName' = LogNameOf(ms_args.directory, ms_args.basename, logNumber')
    /\ ms_pc' = IF PathExists(ms_files, logName') THEN "search" ELSE "save"
    /\ UNCHANGED <<ms_dirs, ms_files, ms_args, ms_ret>>

\* lines 29-31: the file is written and its name returned
MSSave ==
    /\ MSFrame
    /\ ms_pc = "save"
    /\ ms_files' = SaveMat(ms_files, logName, "data")
    /\ ms_ret' = logName
    /\ ms_pc' = "returned"
    /\ UNCHANGED <<ms_dirs, ms_args, logNumber, logName>>

-----------------------------------------------------------------------------
(* The log-file selection of src/TCN/estimator.py, lines 137-160 and       *)
(* 512-515, run by two estimator processes in the same directory.  Each    *)
(* path.exists, os.mkdir and savemat is one step of its process; the steps *)
(* of the two processes interleave in any order.                           *)

MaxLogs == 2

Estimators == {1, 2}
LogsDirectory == "./logs"

\* './logs/log' + str(logNumber) + '.mat'
EstLogName(n) == <<LogsDirectory, "log", n>>

ESTInit ==
    /\ logs_dirs \in {{}, {LogsDirectory}}
    /\ \E present \in SUBSET { EstLogName(n) : n \in 1..MaxLogs } :
          /\ (LogsDirectory \notin logs_dirs => present = {})
          /\ logs = FilesOn(present)
    /\ est_pc = [p \in Estimators |-> "start"]
    /\ est_logNumber = [p \in Estimators |-> 0]
    /\ est_logName = [p \in Estimators |-> << >>]

ESTFrame == UNCHANGED <<coreVars, msVars, tcnVars, tgVars, wrVars, tdVars, rcVars>>

\* lines 138-142: fileSpaceFound = False, logNumber = 0, the test of './logs'
ESTStart ==
    /\ ESTFrame
    /\ \E p \in Estimators :
          /\ est_pc[p] = "start"
          /\ est_logNumber' = [est_logNumber EXCEPT ![p] = 0]
          /\ est_pc' = [est_pc EXCEPT ![p] = IF LogsDirectory \in logs_dirs
                                                   THEN "search" ELSE "mkdir"]
    /\ UNCHANGED <<logs_dirs, logs, est_logName>>

\* line 143: os.mkdir raises FileExistsError when the directory is there by now
ESTMkdir ==
    /\ ESTFrame
    /\ \E p \in Estimators :
          /\ est_pc[p] = "mkdir"
          /\ IF LogsDirectory \in logs_dirs
             THEN /\ est_pc' = [est_pc EXCEPT ![p] = "raised"]
                  /\ UNCHANGED logs_dirs
             ELSE /\ est_pc' = [est_pc EXCEPT ![p] = "search"]
                  /\ logs_dirs' = logs_dirs \cup {LogsDirectory}
    /\ UNCHANGED <<logs, est_logNumber, est_logName>>

\* lines 147-152: one iteration of the search loop
ESTProbe ==
    /\ ESTFrame
    /\ \E p \in Estimators :
          /\ est_pc[p] = "search"
          /\ est_logNumber' = [est_logNumber EXCEPT ![p] = @ + 1]
          /\ est_logName' = [est_logName EXCEPT ![p] = EstLogName(est_logNumber'[p])]
          /\ est_pc' = [est_pc EXCEPT ![p] = IF PathExists(logs, est_logName'[p])
                                                   THEN "search" ELSE "chosen"]
    /\ UNCHANGED <<logs_dirs, logs>>

\* line 160: the empty file that marks the name as taken
ESTPlaceholder ==
    /\ ESTFrame
    /\ \E p \in Estimators :
          /\ est_pc[p] = "chosen"
          /\ logs' = SaveMat(logs, est_logName[p], <<"empty", p>>)
          /\ est_pc' = [est_pc EXCEPT ![p] = "training"]
    /\ UNCHANGED <<logs_dirs, est_logNumber, est_logName>>

\* lines 512-515: the results replace the content of the log file
ESTFinish ==
    /\ ESTFrame
    /\ \E p \in Estimators :
          /\ est_pc[p] = "training"
          /\ logs' = SaveMat(logs, est_logName[p], <<"results", p>>)
          /\ est_pc' = [est_pc EXCEPT ![p] = "done"]
    /\ UNCHANGED <<logs_dirs, est_logNumber, est_logName>>

-----------------------------------------------------------------------------
(* The epoch loop of src/TCN/estimator.py, lines 279-282 and 482-503.      *)
(* A Python name holds a reference: tcn_heap maps each object to its       *)
(* parameters, model and modelBEST are object identities.  The optimizer's *)
(* result is any parameter value; the evaluation loss is a fixed function  *)
(* of the parameters (the evaluation set does not change).                 *)

MaxEpochs == 3
MaxParam == 2
MaxLoss == 2

Parameters == 0..MaxParam
Losses == 0..MaxLoss

\* TCN(...): the one model object the script constructs
TheModel == 1

TCNInit ==
    /\ epochs \in 1..MaxEpochs
    /\ evalLossOf \in [Parameters -> Losses]
    /\ tcn_heap \in [{TheModel} -> Parameters]
    /\ model = TheModel
    /\ modelBEST = model
    /\ bestloss = 0
    /\ ep = 1
    /\ tloss = 0
    /\ tcn_pc = "train"
    /\ trained = << >> /\ evaluated = << >> /\ tested = << >>

TCNFrame == UNCHANGED <<coreVars, msVars, estVars, tgVars, wrVars, tdVars, rcVars>>

\* lines 485-486: train(ep); optimizer.step() updates the model object in place
TCNTrain ==
    /\ TCNFrame
    /\ tcn_pc = "train" /\ ep <= epochs
    /\ \E new \in Parameters : tcn_heap' = [tcn_heap EXCEPT ![model] = new]
    /\ trained' = Append(trained, tcn_heap'[model])
    /\ tcn_pc' = "evaluate"
    /\ UNCHANGED <<epochs, evalLossOf, model, modelBEST, bestloss, ep, tloss, evaluated, tested>>

\* lines 487-500: tloss = evaluate() and the early-stopping bookkeeping
TCNEvaluate ==
    /\ TCNFrame
    /\ tcn_pc = "evaluate"
    /\ tloss' = evalLossOf[tcn_heap[model]]
    /\ IF ep = 1
       THEN bestloss' = tloss' /\ UNCHANGED modelBEST
       ELSE IF tloss' <= bestloss
            THEN bestloss' = tloss' /\ modelBEST' = model
            ELSE UNCHANGED <<bestloss, modelBEST>>
    /\ evaluated' = Append(evaluated, tloss')
    /\ ep' = ep + 1
    /\ tcn_pc' = "train"
    /\ UNCHANGED <<epochs, evalLossOf, tcn_heap, model, trained, tested>>

\* line 503: test() runs modelBEST (lines 440-444)
TCNTest ==
    /\ TCNFrame
    /\ tcn_pc = "train" /\ ep > epochs
    /\ tested' = <<tcn_heap[modelBEST]>>
    /\ tcn_pc' = "tested"
    /\ UNCHANGED <<epochs, evalLossOf, tcn_heap, model, modelBEST, bestloss, ep, tloss,
                   trained, evaluated>>

-----------------------------------------------------------------------------
(* GilEllTrainingDataGen, src/gilbertElliotDataGen.py lines 272-347        *)
(* The older GilEllDataGen the function calls is the one of lines 59-207,  *)
(* here as a function of its arguments and the generator's state.  The     *)
(* Riccati matrix and the file matSave writes are left out.                *)

MaxNumSequences == 2

\* lines 162-205: iteration k of the older main loop
OldLoopBody(par, k, ms0, xc0, g) ==
    LET draws == RngSeq(g, IF k = 0 THEN 6 ELSE 7)
        b == IF k = 0 THEN 0 ELSE 1
        tpa == transitionProbabiltyArrayOld(par.p, par.q)
        ms == IF k = 0 THEN ms0
              ELSE IF ms0 = "good"
                   THEN Choice(transitionStateArray[1], tpa[1], Uniform(draws[1]))
                   ELSE Choice(transitionStateArray[2], tpa[2], Uniform(draws[1]))
        coeffs == CoeffsOf(ms, par)
        n(d) == Randn(draws[b + d])
        sysNoise == << <<par.sqrtQ * n(1), par.sqrtQ * n(3)>>, CZero >>
        obsNoise == <<par.sqrtR * n(5), par.sqrtR * n(6)>>
        xc == IF k = 0
              THEN xc0
              ELSE LET fx == MatVec(coeffs, xc0)
                   IN <<CAdd(fx[1], sysNoise[1]), CAdd(fx[2], sysNoise[2])>>
    IN [MarkovState |-> ms, x_current |-> xc,
        z_current |-> IF k = 0 THEN CZero ELSE CAdd(xc[1], obsNoise),
        rng |-> RngAfter(g, draws)]

RECURSIVE OldLoop(_, _, _)
\* the loop from iteration run.i to its end
OldLoop(par, run, g) ==
    IF run.i > par.sequenceLength
    THEN [x |-> run.x, z |-> run.z, rng |-> g]
    ELSE LET r == OldLoopBody(par, run.i, run.MarkovState, run.x_current, g)
         IN OldLoop(par, [run EXCEPT !.i = run.i + 1,
                                     !.MarkovState = r.MarkovState,
                                     !.x_current = r.x_current,
                                     !.z[run.i] = r.z_current,
                                     !.x[run.i] = r.x_current[1]],
                    r.rng)

\* lines 59-207: GilEllDataGen(params, seed) from generator state g
OldGilEllDataGen(par, sd, g) ==
    LET st == StartState(par, sd, g)
    IN OldLoop(par, [i |-> 0, MarkovState |-> st.MarkovState,
                     x_current |-> <<CZero, CZero>>,
                     x |-> EmptyArray(par.sequenceLength + 1),
                     z |-> EmptyArray(par.sequenceLength + 1)],
               st.rng)

\* np.zeros((d0, d1, d2)) and np.zeros((d0, d2)), dtype=float
ZeroArray3(d0, d1, d2) == [c \in 0..(d0 - 1) |-> [k \in 0..(d1 - 1) |-> [n \in 0..(d2 - 1) |-> 0]]]
ZeroArray2(d0, d2) == [c \in 0..(d0 - 1) |-> [n \in 0..(d2 - 1) |-> 0]]

\* lines 283-284, 297-298: the params of the good-only and the bad-only call
GoodOnlyParams(a) ==
    [p |-> PDen, q |-> 0, coeffs |-> a.coeffs, sequenceLength |-> a.sequenceLength,
     sqrtQ |-> 1, sqrtR |-> 1, startState |-> "good"]
BadOnlyParams(a) ==
    [p |-> 0, q |-> PDen, coeffs |-> a.coeffs, sequenceLength |-> a.sequenceLength,
     sqrtQ |-> 1, sqrtR |-> 1, startState |-> "bad"]

\* lines 286-293, 300-307: the three outputs after column col received the
\* sequence sd
WriteColumn(out, sd, L, col) ==
    LET obs == PySlice(sd.z, 0, L)
        fin == PySlice(sd.x, L - 1, L + 1)
        all == PySlice(sd.x, 0, L + 1)
    IN [observationStates |->
            SetColumn3(SetColumn3(out.observationStates, 0, col, Reals(obs)), 1, col, Imags(obs)),
        finalTrueStates |->
            SetPair2(SetPair2(out.finalTrueStates, 0, col, Reals(fin)), 2, col, Imags(fin)),
        allTrueStates |->
            SetColumn3(SetColumn3(out.allTrueStates, 0, col, Reals(all)), 1, col, Imags(all))]

\* the column of the good sequence i and of the bad sequence i
GoodColumn(k, N) == k
BadColumn(k, N) == k + N - 1

\* np.squeeze(t[:, :, None]): the inserted axis goes again, and so does
\* axis 1 when its length is 1
Squeezed3(t) == IF Cardinality(DOMAIN t[0]) = 1 THEN [c \in DOMAIN t |-> t[c][0]] ELSE t

TGInit ==
    /\ tg_args \in [sequenceLength : 1..MaxSeqLen, numSequences : 1..MaxNumSequences,
                    coeffs : CoeffChoices, randSeed : 0..MaxSeed]
    /\ tg_rng \in 0..(RngMod - 1)
    /\ tg_pc = "call" /\ tg_i = 0
    /\ tg_sequenceData = << >>
    /\ tg_out = << >>
    /\ shuffleIndexes = "unset"
    /\ tg_writes = << >>
    /\ tg_ret = << >>

TGFrame == UNCHANGED <<coreVars, msVars, estVars, tcnVars, wrVars, tdVars, rcVars>>

\* lines 276-279: the three zero arrays
TGCall ==
    /\ TGFrame
    /\ tg_pc = "call"
    /\ LET L == tg_args.sequenceLength
           N == tg_args.numSequences
       IN /\ tg_out' = [finalTrueStates |-> ZeroArray2(4, N * 2),
                        observationStates |-> ZeroArray3(2, L, N * 2),
                        allTrueStates |-> ZeroArray3(2, L + 1, N * 2)]
          /\ tg_writes' = [col \in 0..(N * 2 - 1) |-> << >>]
    /\ tg_i' = 0
    /\ tg_pc' = "good"
    /\ UNCHANGED <<tg_args, tg_rng, tg_sequenceData, shuffleIndexes, tg_ret>>

\* lines 281-293: the good sequence of iteration i
TGGood ==
    /\ TGFrame
    /\ tg_pc = "good" /\ tg_i < tg_args.numSequences
    /\ LET r == OldGilEllDataGen(GoodOnlyParams(tg_args), tg_args.randSeed + tg_i, tg_rng)
           sd == [x |-> r.x, z |-> r.z]
           col == GoodColumn(tg_i, tg_args.numSequences)
       IN /\ tg_sequenceData' = sd
          /\ tg_rng' = r.rng
          /\ tg_out' = WriteColumn(tg_out, sd, tg_args.sequenceLength, col)
          /\ tg_writes' = [tg_writes EXCEPT ![col] =
                              Append(@, [regime |-> "good", index |-> tg_i, data |-> sd])]
    /\ tg_pc' = "bad"
    /\ UNCHANGED <<tg_args, tg_i, shuffleIndexes, tg_ret>>

\* lines 296-307: the bad sequence of iteration i
TGBad ==
    /\ TGFrame
    /\ tg_pc = "bad"
    /\ LET r == OldGilEllDataGen(BadOnlyParams(tg_args),
                                 tg_args.randSeed + tg_i + tg_args.numSequences, tg_rng)
           sd == [x |-> r.x, z |-> r.z]
           col == BadColumn(tg_i, tg_args.numSequences)
       IN /\ tg_sequenceData' = sd
          /\ tg_rng' = r.rng
          /\ tg_out' = WriteColumn(tg_out, sd, tg_args.sequenceLength, col)
          /\ tg_writes' = [tg_writes EXCEPT ![col] =
                              Append(@, [regime |-> "bad", index |-> tg_i, data |-> sd])]
    /\ tg_i' = tg_i + 1
    /\ tg_pc' = "good"
    /\ UNCHANGED <<tg_args, shuffleIndexes, tg_ret>>

\* lines 311-315: np.random.shuffle permutes a temporary in place and returns
\* None; indexing with None inserts an axis, which np.squeeze removes
TGShuffle ==
    /\ TGFrame
    /\ tg_pc = "good" /\ tg_i >= tg_args.numSequences
    /\ tg_rng' = RngAfter(tg_rng, RngSeq(tg_rng, tg_args.numSequences * 2 - 1))
    /\ shuffleIndexes' = "None"
    /\ tg_out' = [finalTrueStates |-> tg_out.finalTrueStates,
                  observationStates |-> Squeezed3(tg_out.observationStates),
                  allTrueStates |-> Squeezed3(tg_out.allTrueStates)]
    /\ tg_pc' = "shuffled"
    /\ UNCHANGED <<tg_args, tg_i, tg_sequenceData, tg_writes, tg_ret>>

\* lines 341-347: data = (allTrueStates, observationStates, finalTrueStates)
TGReturn ==
    /\ TGFrame
    /\ tg_pc = "shuffled"
    /\ tg_ret' = <<tg_out.allTrueStates, tg_out.observationStates, tg_out.finalTrueStates>>
    /\ tg_pc' = "returned"
    /\ UNCHANGED <<tg_args, tg_rng, tg_i, tg_sequenceData, tg_out, shuffleIndexes, tg_writes>>

-----------------------------------------------------------------------------
(* GilElDataGenWrapper, src/gilbertElliot/gilbertElliotDataGen.py lines    *)
(* 518-594.  The functions it calls are the ones modelled above, here as   *)
(* functions of their arguments: GilEllDataGen (with the generator state   *)
(* it leaves), toeplitzData and matSave.  The Riccati matrix, which the    *)
(* wrapper only passes on, is left out; debug is False.                    *)

RECURSIVE RunLoopState(_, _, _)
\* lines 253-316: the loop run to its end, and the generator state it leaves
RunLoopState(par, run, g) ==
    IF run.pc # "loop" \/ run.i >= LoopSteps(par.sequenceLength)
    THEN [run |-> run, rng |-> g]
    ELSE LET r == RunStep(par, run, g) IN RunLoopState(par, r.run, r.rng)

\* lines 141-316: GilEllDataGen(params, seed) from generator state g
GilEllDataGenOf(par, sd, g) ==
    LET c == RunCall(par, FreshRun(sd), g) IN RunLoopState(par, c.run, c.rng)

\* lines 345-373: toeplitzData(sequenceData, numColumns).  Iteration w of the
\* loop (lines 363-372) writes column w of each output and no other cell, so
\* each output is given cell by cell from the slices of its column.
ToeplitzDataOf(sd, nc) ==
    LET numRows == NumRows(SequenceLengthOf(sd), nc)
        rows == 0..(numRows - 1)
        part(c, sq) == IF c = 0 THEN Reals(sq) ELSE Imags(sq)
    IN IF RejectsWindow(numRows)
       THEN [error |-> FormatError]
       ELSE [error |-> "none",
             observationStates |->
                [c \in 0..1 |-> [k \in 0..(nc - 1) |-> [w \in rows |->
                    part(c, ObservationSlice(sd.z, w, nc))[k + 1]]]],
             finalTrueStates |->
                [r \in 0..3 |-> [w \in rows |->
                    part(r \div 2, FinalStatesSlice(sd.x, w, nc))[(r % 2) + 1]]],
             allTrueStates |->
                [c \in 0..1 |-> [k \in 0..nc |-> [w \in rows |->
                    part(c, PySlice(sd.x, w, w + nc + 1))[k + 1]]]]]

RECURSIVE FreeLogNumber(_, _, _, _)
\* lines 23-27 of matSave: the first number after n whose name does not exist
FreeLogNumber(files, directory, basename, n) ==
    LET m == Increment(n)
    IN IF PathExists(files, LogNameOf(directory, basename, m))
       THEN FreeLogNumber(files, directory, basename, m)
       ELSE m

\* lines 16-31: matSave(directory, basename, data) on the file system
MatSaveOf(dirs, files, directory, basename) ==
    LET name == LogNameOf(directory, basename, FreeLogNumber(files, directory, basename, 0))
    IN [dirs |-> dirs \cup {directory}, files |-> SaveMat(files, name, "data"),
        logName |-> name]

\* the value of the initTest parameter: what the caller passed, or the
\* default of line 524, the string 'False'
DefaultInitTest == [type |-> "str", val |-> "False"]
InitTestArgs == {"absent", "True", "False"}
InitTestValue(arg) == IF arg = "absent" THEN DefaultInitTest ELSE [type |-> "bool", val |-> arg]
\* if(initTest): Python's truth value of a str or a bool
Truthy(value) == IF value.type = "str" THEN value.val # "" ELSE value.val = "True"

\* out[a:b] = vals for a 1-D array (vals 1-based)
SetSlice(out, a, b, vals) ==
    [k \in DOMAIN out |-> IF a <= k /\ k < b THEN vals[k - a + 1] ELSE out[k]]

\* lines 537-543 (skip = 0), 545-551 (skip = 1), 553-557 (skip = 0): an array
\* of zeros that receives arr[skip : n-(L+1)] at L+skip .. n-2 and arr[-1] at -1
ZeroedStart(arr, zero, L, skip) ==
    LET n == Cardinality(DOMAIN arr)
        zeros == [k \in 0..(n - 1) |-> zero]
        moved == SetSlice(zeros, L + skip, n - 1, PySlice(arr, skip, n - (L + 1)))
    IN SetSlice(moved, n - 1, n, <<arr[n - 1]>>)

\* lines 535-558: the tuple that replaces longSequence when initTest is true
InitTestSequence(seq, L) ==
    [x |-> ZeroedStart(seq.x, CZero, L, 0),
     z |-> ZeroedStart(seq.z, CZero, L, 1),
     channelStates |-> ZeroedStart(seq.channelStates, <<0, 0>>, L, 0)]

\* line 527
LongSequenceLengthOver(numSequences, sequenceLength) == numSequences + sequenceLength
LongSequenceLength(numSequences, sequenceLength) == numSequences + sequenceLength - 1

\* lines 531-532: the params tuple handed to GilEllDataGen
WrapperParams(a) ==
    [p |-> a.goodTransProb, q |-> a.badTransProb, coeffs |-> a.coeffs,
     sequenceLength |-> LongSequenceLength(a.numSequences, a.sequenceLength),
     sqrtQ |-> 1, sqrtR |-> 1, startState |-> a.startingState]

\* the transition probabilities the callers pass: (0, 1), (1, 0) and one pair inside (0, 1)
TransProbs == { <<0, PDen>>, <<PDen, 0>>, <<1, 1>> }
\* the generator states a caller may leave
GeneratorStates == { SeedState(s) : s \in 0..MaxSeed }
\* the file system: ./data missing, there and empty, or holding GEData1.mat
FileSystems ==
    { [dirs |-> {}, files |-> FilesOn({})],
      [dirs |-> {DataDirectory}, files |-> FilesOn({})],
      [dirs |-> {DataDirectory}, files |-> FilesOn({LogNameOf(DataDirectory, "GEData", 1)})] }

WRInit ==
    /\ \E tp \in TransProbs :
          wr_args \in [sequenceLength : 1..MaxSeqLen, numSequences : 1..MaxNumSequences,
                       coeffs : CoeffChoices, goodTransProb : {tp[1]}, badTransProb : {tp[2]},
                       randSeed : 0..MaxSeed, startingState : StartPolicies,
                       initTest : InitTestArgs]
    /\ wr_rng \in GeneratorStates
    /\ \E fs \in FileSystems : ms_dirs = fs.dirs /\ ms_files = fs.files
    /\ wr_pc = "call"
    /\ longSequence = << >> /\ wr_data = << >> /\ wr_info = << >>
    /\ ms_args = << >> /\ ms_pc = "off" /\ logNumber = 0 /\ logName = << >> /\ ms_ret = << >>

WRFrame == UNCHANGED <<coreVars, estVars, tcnVars, tgVars, tdVars, rcVars, ms_args, ms_pc, logNumber, logName,
                       ms_ret>>

\* lines 527-532: the long trajectory
WRGenerate ==
    /\ WRFrame
    /\ wr_pc = "call"
    /\ LET r == GilEllDataGenOf(WrapperParams(wr_args), wr_args.randSeed, wr_rng)
       IN /\ wr_rng' = r.rng
          /\ IF r.run.pc = "raised"
             THEN wr_pc' = "raised" /\ UNCHANGED longSequence
             ELSE wr_pc' = "generated" /\ longSequence' = Returned(r.run)
    /\ UNCHANGED <<wr_args, wr_data, wr_info, ms_dirs, ms_files>>

\* lines 535-558: if(initTest)
WRInitTest ==
    /\ WRFrame
    /\ wr_pc = "generated"
    /\ longSequence' = IF Truthy(InitTestValue(wr_args.initTest))
                       THEN InitTestSequence(longSequence, wr_args.sequenceLength)
                       ELSE longSequence
    /\ wr_pc' = "windowing"
    /\ UNCHANGED <<wr_args, wr_rng, wr_data, wr_info, ms_dirs, ms_files>>

\* line 562: data = toeplitzData(longSequence, sequenceLength)
WRToeplitz ==
    /\ WRFrame
    /\ wr_pc = "windowing"
    /\ wr_data' = ToeplitzDataOf(longSequence, wr_args.sequenceLength)
    /\ wr_pc' = IF wr_data'.error = "none" THEN "saving" ELSE "raised"
    /\ UNCHANGED <<wr_args, wr_rng, longSequence, wr_info, ms_dirs, ms_files>>

\* lines 564-594: the data file and the info record
WRReturn ==
    /\ WRFrame
    /\ wr_pc = "saving"
    /\ LET saved == MatSaveOf(ms_dirs, ms_files, DataDirectory, "GEData")
       IN /\ ms_dirs' = saved.dirs
          /\ ms_files' = saved.files
          /\ wr_info' = [filename |-> saved.logName,
                         channelCoefficients |-> longSequence.channelStates,
                         seed |-> wr_args.randSeed]
    /\ wr_pc' = "returned"
    /\ UNCHANGED <<wr_args, wr_rng, longSequence, wr_data>>

-----------------------------------------------------------------------------
(* GilElTestDataGen, src/gilbertElliot/gilbertElliotDataGen.py lines       *)
(* 379-515.  Each iteration of its loop calls GilElDataGenWrapper and      *)
(* convertToBatched, here as functions of their arguments.                 *)

\* lines 33-45: convertToBatched.  Iteration bi of its loop writes the cells
\* [.., bi] of the two outputs and no other, so each output is given cell by
\* cell from the value assigned in that iteration.
ConvertToBatchedOf(sys, obs, bs) ==
    LET seriesLength == SeriesLength(NumSequencesOf(obs), bs)
        series == 0..(seriesLength - 1)
        sysOf(bi) == BroadcastRows(Transpose2(SliceLast2(sys, BatchFirst(bi, bs),
                                                         BatchFirst(bi + 1, bs))), bs)
        obsOf(bi) == BroadcastRows(SwapAxes12(Transpose3(SliceLast3(obs, BatchFirst(bi, bs),
                                                                    BatchFirst(bi + 1, bs)))), bs)
    IN IF \E bi \in series : sysOf(bi) = <<"ValueError">> \/ obsOf(bi) = <<"ValueError">>
       THEN [error |-> "ValueError"]
       ELSE [error |-> "none",
             trueState |-> [b \in 0..(bs - 1) |-> [c \in 0..3 |-> [bi \in series |->
                               sysOf(bi)[b][c]]]],
             measuredState |-> [b \in 0..(bs - 1) |-> [c \in 0..1 |->
                                  [k \in DOMAIN obs[0] |-> [bi \in series |-> obsOf(bi)[b][c][k]]]]]]

\* lines 564-594: the windows are there and the file is written
WrapperReturns(a, g, handed, saved) ==
    [error |-> "none", rng |-> g,
     data |-> ToeplitzDataOf(handed, a.sequenceLength),
     info |-> [filename |-> saved.logName,
               channelCoefficients |-> handed.channelStates,
               seed |-> a.randSeed],
     dirs |-> saved.dirs, files |-> saved.files]

\* lines 562-594, with the tuple `handed` that line 562 gives toeplitzData
WrapperWindows(a, g, handed, fs) ==
    IF RejectsWindow(NumRows(SequenceLengthOf(handed), a.sequenceLength))
    THEN [error |-> FormatError, rng |-> g]
    ELSE WrapperReturns(a, g, handed, MatSaveOf(fs.dirs, fs.files, DataDirectory, "GEData"))

\* lines 535-594, with r what GilEllDataGen left
WrapperGenerated(a, r, fs) ==
    IF r.run.pc = "raised" THEN [error |-> "raised", rng |-> r.rng]
    ELSE WrapperWindows(a, r.rng,
                        IF Truthy(InitTestValue(a.initTest))
                        THEN InitTestSequence(Returned(r.run), a.sequenceLength)
                        ELSE Returned(r.run),
                        fs)

\* lines 518-594: GilElDataGenWrapper(**a) from generator state g and file
\* system fs
WrapperOf(a, g, fs) ==
    WrapperGenerated(a, GilEllDataGenOf(WrapperParams(a), a.randSeed, g), fs)

\* lines 413-417, 444-452, 477-486: the keyword arguments of the wrapper call
\* of subset k; GilElTestDataGen's own initTest defaults to the boolean False
SubsetArgs(a, k) ==
    [sequenceLength |-> a.sequenceLength, numSequences |-> a.numSequences,
     coeffs |-> a.coeffs, randSeed |-> a.randSeed,
     goodTransProb |-> IF k = 0 THEN a.goodTransProb ELSE IF k = 1 THEN 0 ELSE PDen,
     badTransProb |-> IF k = 0 THEN a.badTransProb ELSE IF k = 1 THEN PDen ELSE 0,
     startingState |-> IF k = 0 THEN "random" ELSE IF k = 1 THEN "good" ELSE "bad",
     initTest |-> IF k = 0 THEN (IF a.initTest = "absent" THEN "False" ELSE a.initTest)
                  ELSE "absent"]

\* lines 434, 467, 502: the transitionProbabilities entry of subset k
SubsetProbabilities(a, k) ==
    IF k = 0 THEN <<a.goodTransProb, a.badTransProb>>
    ELSE IF k = 1 THEN <<0, PDen>> ELSE <<PDen, 0>>

TDInit ==
    /\ \E tp \in TransProbs :
          td_args \in [sequenceLength : 1..MaxSeqLen, numSequences : 1..MaxNumSequences,
                       coeffs : CoeffChoices, goodTransProb : {tp[1]}, badTransProb : {tp[2]},
                       randSeed : {0, MaxSeed}, batch_size : 1..MaxNumSequences,
                       testSetLen : {1, 3}, initTest : InitTestArgs]
    /\ td_rng \in GeneratorStates
    /\ td_args.randSeed = 0 \/ td_rng = SeedState(0)
    /\ \E fs \in FileSystems : ms_dirs = fs.dirs /\ ms_files = fs.files
    /\ td_pc = "call" /\ td_k = 0
    /\ trueStateTEST = << >> /\ measuredStateTEST = << >>
    /\ testDataInfo = << >> /\ LSandKFTestData = << >>
    /\ ms_args = << >> /\ ms_pc = "off" /\ logNumber = 0 /\ logName = << >> /\ ms_ret = << >>

TDFrame == UNCHANGED <<coreVars, estVars, tcnVars, tgVars, wrVars, rcVars, ms_args, ms_pc, logNumber,
                       logName, ms_ret>>

\* lines 384-405: the lists and the two np.empty arrays
TDCall ==
    /\ TDFrame
    /\ td_pc = "call"
    /\ LET numBatchedSequences == SeriesLength(td_args.numSequences, td_args.batch_size)
       IN /\ trueStateTEST' = [k \in 0..(td_args.testSetLen - 1) |->
                                  Empty3(td_args.batch_size, 4, numBatchedSequences)]
          /\ measuredStateTEST' = [k \in 0..(td_args.testSetLen - 1) |->
                                      Empty4(td_args.batch_size, 2, td_args.sequenceLength,
                                             numBatchedSequences)]
    /\ testDataInfo' = << >> /\ LSandKFTestData' = << >>
    /\ td_k' = 0
    /\ td_pc' = "loop"
    /\ UNCHANGED <<td_args, td_rng, ms_dirs, ms_files>>

\* lines 418-438, 453-471, 487-506: the results of subset k are stored
TDStore(r, batched) ==
    IF batched.error # "none"
    THEN /\ td_pc' = "raised"
         /\ UNCHANGED <<td_k, trueStateTEST, measuredStateTEST, testDataInfo, LSandKFTestData>>
    ELSE /\ trueStateTEST' = [trueStateTEST EXCEPT ![td_k] = batched.trueState]
         /\ measuredStateTEST' = [measuredStateTEST EXCEPT ![td_k] = batched.measuredState]
         /\ LSandKFTestData' = Append(LSandKFTestData, r.data)
         /\ testDataInfo' = Append(testDataInfo,
               [ARCoefficients |-> td_args.coeffs,
                transitionProbabilities |-> SubsetProbabilities(td_args, td_k),
                dataFilePath |-> r.info.filename,
                seed |-> r.info.seed,
                channelCoefficients |-> r.info.channelCoefficients])
         /\ td_k' = td_k + 1
         /\ UNCHANGED td_pc

\* lines 413-506, with r what the wrapper call of subset k gave
TDWrapped(r) ==
    /\ td_rng' = r.rng
    /\ IF r.error # "none"
       THEN /\ td_pc' = "raised"
            /\ UNCHANGED <<td_k, trueStateTEST, measuredStateTEST, testDataInfo,
                           LSandKFTestData, ms_dirs, ms_files>>
       ELSE /\ ms_dirs' = r.dirs
            /\ ms_files' = r.files
            /\ TDStore(r, ConvertToBatchedOf(r.data.finalTrueStates, r.data.observationStates,
                                             td_args.batch_size))

\* lines 407-507: iteration k of the loop
TDSubset ==
    /\ TDFrame
    /\ td_pc = "loop" /\ td_k < td_args.testSetLen
    /\ TDWrapped(WrapperOf(SubsetArgs(td_args, td_k), td_rng,
                           [dirs |-> ms_dirs, files |-> ms_files]))
    /\ UNCHANGED td_args

\* lines 509-515: the test file and the return
TDReturn ==
    /\ TDFrame
    /\ td_pc = "loop" /\ td_k >= td_args.testSetLen
    /\ LET saved == MatSaveOf(ms_dirs, ms_files, DataDirectory, "GETestData")
       IN ms_dirs' = saved.dirs /\ ms_files' = saved.files
    /\ td_pc' = "returned"
    /\ UNCHANGED <<td_args, td_rng, td_k, trueStateTEST, measuredStateTEST, testDataInfo,
                   LSandKFTestData>>

-----------------------------------------------------------------------------
(* The Riccati block of GilEllDataGen, lines 216-240 of                    *)
(* src/gilbertElliot/gilbertElliotDataGen.py, in two successive calls.     *)
(* Numbers are exact fractions <<numerator, denominator>> with a positive  *)
(* denominator; matrices are tuples of rows.  scipy's solve_discrete_are   *)
(* is a function of its four arguments whose value the model does not      *)
(* compute: it is drawn once per argument tuple and remembered.            *)

Frac(n) == <<n, 1>>
FracAdd(a, b) == <<a[1] * b[2] + b[1] * a[2], a[2] * b[2]>>
FracNeg(a) == <<0 - a[1], a[2]>>
FracMul(a, b) == <<a[1] * b[1], a[2] * b[2]>>
FracInv(a) == IF a[1] > 0 THEN <<a[2], a[1]>> ELSE <<0 - a[2], 0 - a[1]>>
FracLeq(a, b) == a[1] * b[2] <= b[1] * a[2]
FracLess(a, b) == a[1] * b[2] < b[1] * a[2]

RECURSIVE FracDot(_, _, _, _)
\* sum over k in 1..n of A[r][k] * B[k][c], as FracDot(A[r], column c of B, n, .)
FracDot(row, col, n, acc) ==
    IF n = 0 THEN acc ELSE FracDot(row, col, n - 1, FracAdd(FracMul(row[n], col[n]), acc))

\* np.transpose of a matrix
FracTranspose(A) == [c \in 1..Len(A[1]) |-> [r \in 1..Len(A) |-> A[r][c]]]
\* np.matmul
FracMatMul(A, B) ==
    [r \in 1..Len(A) |-> [c \in 1..Len(B[1]) |->
        FracDot(A[r], FracTranspose(B)[c], Len(B), Frac(0))]]
\* np.add
FracMatAdd(A, B) == [r \in 1..Len(A) |-> [c \in 1..Len(A[1]) |-> FracAdd(A[r][c], B[r][c])]]
\* A - B
FracMatSub(A, B) ==
    [r \in 1..Len(A) |-> [c \in 1..Len(A[1]) |-> FracAdd(A[r][c], FracNeg(B[r][c]))]]
\* np.linalg.inv of a 1 x 1 matrix; a singular one raises LinAlgError
FracMatInv(A) == IF A[1][1][1] = 0 THEN <<"LinAlgError">> ELSE << <<FracInv(A[1][1])>> >>

\* line 189: Q = np.matrix([[Q_diag, 0], [0, 0]])
QMatrix(Q_diag) == << <<Frac(Q_diag), Frac(0)>>, <<Frac(0), Frac(0)>> >>
\* line 193: R = np.matrix([R])
RMatrix(R) == << <<Frac(R)>> >>
\* line 196: H = np.matrix([1, 0])
HMatrix == << <<Frac(1), Frac(0)>> >>
\* lines 219-220: np.matrix([coeffs, [1, 0]])
RegimeMatrix(coeffs) == << <<Frac(coeffs[1]), Frac(coeffs[2])>>, <<Frac(1), Frac(0)>> >>

\* both roots of t^2 - a1 t - a2 inside the unit circle: the spectral radius
\* of [[a1, a2], [1, 0]] is below 1
SpectralRadiusBelowOne(coeffs) ==
    /\ coeffs[2] < 1 /\ 0 - coeffs[2] < 1
    /\ coeffs[2] + coeffs[1] < 1
    /\ coeffs[2] - coeffs[1] < 1

\* the arguments a call hands to the solver, with the seed among them
SolverArgsSeeded(a, r) ==
    <<FracTranspose(RegimeMatrix(a.coeffs[r])), FracTranspose(HMatrix),
      QMatrix(a.Q_diag), RMatrix(a.R), a.randSeed>>
\* lines 222, 229: the arguments of sciAlg.solve_discrete_are for regime r
SolverArgs(a, r) ==
    <<FracTranspose(RegimeMatrix(a.coeffs[r])), FracTranspose(HMatrix),
      QMatrix(a.Q_diag), RMatrix(a.R)>>

\* the symmetric positive semi-definite matrices the solver returns in the model
Solutions ==
    { << <<Frac(0), Frac(0)>>, <<Frac(0), Frac(0)>> >>,
      << <<Frac(1), Frac(0)>>, <<Frac(0), Frac(1)>> >>,
      << <<Frac(4), Frac(0 - 2)>>, <<Frac(0 - 2), Frac(1)>> >> }

\* what solve_discrete_are may give for `key`: its earlier value if it was
\* called with these arguments before; else a solution, or, when the regime
\* matrix is not stable, possibly LinAlgError
SolveOutcomes(key, table, coeffs) ==
    IF key \in DOMAIN table THEN {table[key]}
    ELSE IF SpectralRadiusBelowOne(coeffs) THEN Solutions
    ELSE Solutions \cup {<<"LinAlgError">>}

Remembered(table, key, val) ==
    [k \in DOMAIN table \cup {key} |-> IF k = key THEN val ELSE table[k]]

\* lines 223-224, 230-231: riccatiKalGain
KalmanGain(P, Rm) ==
    LET kRicConIntermediate ==
            FracMatAdd(FracMatMul(FracMatMul(HMatrix, P), FracTranspose(HMatrix)), Rm)
        inverse == FracMatInv(kRicConIntermediate)
    IN IF inverse = <<"LinAlgError">> THEN inverse
       ELSE FracMatMul(FracMatMul(P, FracTranspose(HMatrix)), inverse)

\* the estimate with the correction added
EstimateAdded(P, K) == FracMatAdd(P, FracMatMul(FracMatMul(K, HMatrix), P))
\* lines 227, 234: riccatiPred - riccatiKalGain H riccatiPred
EstimateOf(P, K) == FracMatSub(P, FracMatMul(FracMatMul(K, HMatrix), P))

\* lines 237-240: the row of riccatiConvergences for a regime whose
\* prediction covariance is P
ConvergenceRow(P, Rm) == [c \in 0..1 |-> IF c = 0 THEN P[1][1]
                                         ELSE EstimateOf(P, KalmanGain(P, Rm))[1][1]]

\* the (goodCoeffs, badCoeffs) pairs of the two calls
RiccatiCoeffChoices == { << <<0, 0>>, <<0, 0>> >>, << <<0, 0>>, <<1, -1>> >> }
\* the (Q_diag, R) pairs of the two calls, both positive squares
NoiseChoices == { <<1, 1>>, <<4, 1>>, <<1, 4>> }
\* what else a call is given: seed, transition probabilities, start, length
GenerationChoices ==
    { [randSeed |-> 1, p |-> 0, q |-> PDen, startState |-> "good", sequenceLength |-> 1],
      [randSeed |-> MaxSeed, p |-> PDen, q |-> 0, startState |-> "random",
       sequenceLength |-> MaxSeqLen] }

RiccatiArgs ==
    { [coeffs |-> cf, Q_diag |-> nz[1], R |-> nz[2], randSeed |-> g.randSeed, p |-> g.p,
       q |-> g.q, startState |-> g.startState, sequenceLength |-> g.sequenceLength] :
      cf \in RiccatiCoeffChoices, nz \in NoiseChoices, g \in GenerationChoices }

\* np.sqrt of a square
SqrtOf(n) == CHOOSE s \in 0..n : s * s = n

\* params as the generation loop of the model reads them
GenerationParams(a) ==
    [p |-> a.p, q |-> a.q, coeffs |-> a.coeffs, sequenceLength |-> a.sequenceLength,
     sqrtQ |-> SqrtOf(a.Q_diag), sqrtR |-> SqrtOf(a.R), startState |-> a.startState]

RCInit ==
    /\ rc_args = << >> /\ rc_rng \in GeneratorStates /\ rc_pc = "idle"
    /\ rc_run = << >> /\ riccatiConvergences = << >>
    /\ rc_solved = << >> /\ rc_rets = << >>

RCFrame == UNCHANGED <<coreVars, msVars, estVars, tcnVars, tgVars, wrVars, tdVars>>

\* lines 141-250: the call up to the loop, the Riccati block in it
RCCall ==
    /\ RCFrame
    /\ rc_pc = "idle" /\ Len(rc_rets) < 2
    /\ \E a \in RiccatiArgs :
         \E riccatiPredGood \in SolveOutcomes(SolverArgs(a, 1), rc_solved, a.coeffs[1]) :
           LET c == RunCall(GenerationParams(a), FreshRun(a.randSeed), rc_rng)
               solved1 == Remembered(rc_solved, SolverArgs(a, 1), riccatiPredGood)
           IN /\ rc_args' = a
              /\ rc_rng' = c.rng
              /\ IF riccatiPredGood = <<"LinAlgError">>
                 THEN /\ rc_solved' = solved1
                      /\ rc_rets' = Append(rc_rets, [args |-> a, error |-> "LinAlgError"])
                      /\ UNCHANGED <<rc_pc, rc_run, riccatiConvergences>>
                 ELSE \E riccatiPredBad \in SolveOutcomes(SolverArgs(a, 2), solved1, a.coeffs[2]) :
                        /\ rc_solved' = Remembered(solved1, SolverArgs(a, 2), riccatiPredBad)
                        /\ IF riccatiPredBad = <<"LinAlgError">>
                           THEN /\ rc_rets' = Append(rc_rets,
                                                     [args |-> a, error |-> "LinAlgError"])
                                /\ UNCHANGED <<rc_pc, rc_run, riccatiConvergences>>
                           ELSE /\ riccatiConvergences' =
                                      [r \in 0..1 |->
                                          ConvergenceRow(IF r = 0 THEN riccatiPredGood
                                                         ELSE riccatiPredBad, RMatrix(a.R))]
                                /\ rc_run' = c.run
                                /\ rc_pc' = "loop"
                                /\ UNCHANGED rc_rets

\* lines 253-308: the generation loop
RCGenerate ==
    /\ RCFrame
    /\ rc_pc = "loop"
    /\ LET r == RunLoopState(GenerationParams(rc_args), rc_run, rc_rng)
       IN /\ rc_run' = r.run
          /\ rc_rng' = r.rng
          /\ IF r.run.pc = "raised"
             THEN /\ rc_rets' = Append(rc_rets, [args |-> rc_args, error |-> "Exception"])
                  /\ rc_pc' = "idle"
             ELSE /\ rc_pc' = "generated"
                  /\ UNCHANGED rc_rets
    /\ UNCHANGED <<rc_args, riccatiConvergences, rc_solved>>

\* line 316: return((x, z, riccatiConvergences, channelStates))
RCReturn ==
    /\ RCFrame
    /\ rc_pc = "generated"
    /\ rc_rets' = Append(rc_rets, [args |-> rc_args, error |-> "none",
                                   x |-> rc_run.x, z |-> rc_run.z,
                                   riccatiConvergences |-> riccatiConvergences,
                                   channelStates |-> rc_run.channelStates])
    /\ rc_pc' = "idle"
    /\ UNCHANGED <<rc_args, rc_rng, rc_run, riccatiConvergences, rc_solved>>

-----------------------------------------------------------------------------
(* The other components, while they are not the one under study            *)
MMIdleInit ==
    /\ mm_params = << >> /\ mm_seed = 0 /\ torch_rng = 0 /\ mm_pc = "off"
    /\ mm_i = 0 /\ mm_j = 0 /\ mm_m = 0 /\ mm_F = << >> /\ mm_v = << >> /\ mm_w = << >>
    /\ x_complex = << >> /\ z_complex = << >> /\ all_xs = << >>
    /\ mm_x = << >> /\ mm_z = << >>

ParIdleInit == runs = << >> /\ run_params = << >> /\ np_random = 0

ARIdleInit ==
    /\ arCoeffMeans = << >> /\ arCoeffecientNoiseVar = 0 /\ arCoeffsMatrix = << >>
    /\ goodCoeffs = FALSE /\ ar_pc = "off" /\ rejected = 0

TZIdleInit ==
    /\ tz_file = "none" /\ sequenceData = << >> /\ numColumns = 0 /\ tz_pc = "off"
    /\ tz_error = "none"
    /\ tz_i = 0 /\ toeplitzObservationStates = << >>
    /\ toeplitzFinalTrueStates = << >> /\ toeplitzAllTrueStates = << >>

CBIdleInit ==
    /\ systemData = << >> /\ observedData = << >> /\ batchSize = 0 /\ cb_pc = "off"
    /\ cb_i = 0 /\ trueState = << >> /\ measuredState = << >>

CoreIdleInit ==
    GEIdleInit /\ ARIdleInit /\ TZIdleInit /\ CBIdleInit /\ ParIdleInit /\ MMIdleInit

MSIdleInit ==
    /\ ms_dirs = {} /\ ms_files = << >> /\ ms_args = << >> /\ ms_pc = "off"
    /\ logNumber = 0 /\ logName = << >> /\ ms_ret = << >>

ESTIdleInit ==
    /\ logs_dirs = {} /\ logs = << >> /\ est_pc = << >>
    /\ est_logNumber = << >> /\ est_logName = << >>

TCNIdleInit ==
    /\ epochs = 0 /\ evalLossOf = << >> /\ tcn_heap = << >> /\ model = 0 /\ modelBEST = 0
    /\ bestloss = 0 /\ ep = 0 /\ tloss = 0 /\ tcn_pc = "off"
    /\ trained = << >> /\ evaluated = << >> /\ tested = << >>

TGIdleInit ==
    /\ tg_args = << >> /\ tg_rng = 0 /\ tg_pc = "off" /\ tg_i = 0 /\ tg_sequenceData = << >>
    /\ tg_out = << >> /\ shuffleIndexes = "unset" /\ tg_writes = << >> /\ tg_ret = << >>

WRIdleInit ==
    /\ wr_args = << >> /\ wr_rng = 0 /\ wr_pc = "off" /\ longSequence = << >>
    /\ wr_data = << >> /\ wr_info = << >>

TDIdleInit ==
    /\ td_args = << >> /\ td_rng = 0 /\ td_pc = "off" /\ td_k = 0
    /\ trueStateTEST = << >> /\ measuredStateTEST = << >>
    /\ testDataInfo = << >> /\ LSandKFTestData = << >>

RCIdleInit ==
    /\ rc_args = << >> /\ rc_rng = 0 /\ rc_pc = "off" /\ rc_run = << >>
    /\ riccatiConvergences = << >> /\ rc_solved = << >> /\ rc_rets = << >>

ExtIdleInit ==
    /\ MSIdleInit /\ ESTIdleInit /\ TCNIdleInit /\ TGIdleInit /\ WRIdleInit /\ TDIdleInit
    /\ RCIdleInit

-----------------------------------------------------------------------------
(* Specifications, one per component                                       *)
InitGE == GEInit /\ ARIdleInit /\ TZIdleInit /\ CBIdleInit /\ ParIdleInit /\ MMIdleInit /\ ExtIdleInit
NextGE == GECall \/ GEStep \/ GEReturn
SpecGE == InitGE /\ [][NextGE]_vars

\* GilEllDataGen called with an out-of-range transition probability
InitGEInvalid == GEInitWith(InvalidParamSpace) /\ ARIdleInit /\ TZIdleInit /\ CBIdleInit /\ ParIdleInit /\ MMIdleInit /\ ExtIdleInit
SpecGEInvalid == InitGEInvalid /\ [][NextGE]_vars

\* two calls with distinct positive seeds, interleaved step by step
InitPar == GEIdleInit /\ ARIdleInit /\ TZIdleInit /\ CBIdleInit /\ ParInit /\ MMIdleInit /\ ExtIdleInit
NextPar == ParCall \/ ParStep \/ ParReturn
SpecPar == InitPar /\ [][NextPar]_vars

\* ARDatagenMismatch
InitMM == GEIdleInit /\ ARIdleInit /\ TZIdleInit /\ CBIdleInit /\ ParIdleInit /\ MMInit /\ ExtIdleInit
NextMM == MMCall \/ MMElement \/ MMStep \/ MMReturn
SpecMM == InitMM /\ [][NextMM]_vars

InitGEOld == GEInit /\ ARIdleInit /\ TZIdleInit /\ CBIdleInit /\ ParIdleInit /\ MMIdleInit /\ ExtIdleInit
NextGEOld == GEOldCall \/ GEOldStep \/ GEOldReturn
SpecGEOld == InitGEOld /\ [][NextGEOld]_vars

InitAR == GEIdleInit /\ ARInit /\ TZIdleInit /\ CBIdleInit /\ ParIdleInit /\ MMIdleInit /\ ExtIdleInit
NextAR == ARDraw \/ ARReturn
SpecAR == InitAR /\ [][NextAR]_vars

InitTZ == GEIdleInit /\ ARIdleInit /\ TZInit /\ CBIdleInit /\ ParIdleInit /\ MMIdleInit /\ ExtIdleInit
NextTZ == TZCall \/ TZCallOld \/ TZRow \/ TZRowOld \/ TZReturn
SpecTZ == InitTZ /\ [][NextTZ]_vars

InitCB == GEIdleInit /\ ARIdleInit /\ TZIdleInit /\ CBInit /\ ParIdleInit /\ MMIdleInit /\ ExtIdleInit
NextCB == CBCall \/ CBBatch \/ CBReturn
SpecCB == InitCB /\ [][NextCB]_vars

\* matSave; the search loop is a loop of one thread, which keeps running
InitMS == CoreIdleInit /\ MSInit /\ ESTIdleInit /\ TCNIdleInit /\ TGIdleInit /\ WRIdleInit /\ TDIdleInit /\ RCIdleInit
NextMS == MSCall \/ MSProbe \/ MSSave
SpecMS == InitMS /\ [][NextMS]_vars /\ WF_vars(NextMS)

\* two TCN estimator processes
InitEST == CoreIdleInit /\ MSIdleInit /\ ESTInit /\ TCNIdleInit /\ TGIdleInit /\ WRIdleInit /\ TDIdleInit /\ RCIdleInit
NextEST == ESTStart \/ ESTMkdir \/ ESTProbe \/ ESTPlaceholder \/ ESTFinish
SpecEST == InitEST /\ [][NextEST]_vars

\* the epoch loop and the final test
InitTCN == CoreIdleInit /\ MSIdleInit /\ ESTIdleInit /\ TCNInit /\ TGIdleInit /\ WRIdleInit /\ TDIdleInit /\ RCIdleInit
NextTCN == TCNTrain \/ TCNEvaluate \/ TCNTest
SpecTCN == InitTCN /\ [][NextTCN]_vars

\* GilEllTrainingDataGen of the older file
InitTG == CoreIdleInit /\ MSIdleInit /\ ESTIdleInit /\ TCNIdleInit /\ TGInit /\ WRIdleInit /\ TDIdleInit /\ RCIdleInit
NextTG == TGCall \/ TGGood \/ TGBad \/ TGShuffle \/ TGReturn
SpecTG == InitTG /\ [][NextTG]_vars

\* GilElDataGenWrapper; the file system is matSave's
InitWR == CoreIdleInit /\ ESTIdleInit /\ TCNIdleInit /\ TGIdleInit /\ WRInit /\ TDIdleInit /\ RCIdleInit
NextWR == WRGenerate \/ WRInitTest \/ WRToeplitz \/ WRReturn
SpecWR == InitWR /\ [][NextWR]_vars

\* GilElTestDataGen; the file system is matSave's
InitTD == CoreIdleInit /\ ESTIdleInit /\ TCNIdleInit /\ TGIdleInit /\ WRIdleInit /\ TDInit /\ RCIdleInit
NextTD == TDCall \/ TDSubset \/ TDReturn
SpecTD == InitTD /\ [][NextTD]_vars

\* two successive calls of GilEllDataGen, the Riccati block in them
InitRC == CoreIdleInit /\ MSIdleInit /\ ESTIdleInit /\ TCNIdleInit /\ TGIdleInit /\ WRIdleInit
          /\ TDIdleInit /\ RCInit
NextRC == RCCall \/ RCGenerate \/ RCReturn
SpecRC == InitRC /\ [][NextRC]_vars

-----------------------------------------------------------------------------
(* Claims about GilEllDataGen                                              *)

\* the caller has made (at least) two calls, with the same params and seed
BothCallsReturned == Len(rets) >= 2

\* C1 (as stated): for every integer seed, 0 and negative seeds included, and
\* whatever the generator's state before the calls, two calls with identical
\* params and the same seed return identical x, z and channelStates.
C1_AnySeedSameTrajectory == BothCallsReturned => rets[1] = rets[2]

\* C1 (amended): for every seed > 0, and whatever the generator's state before
\* the calls, two calls of GilEllDataGen with identical params and the same seed
\* return identical x, z and channelStates.
C1_PositiveSeedSameTrajectory ==
    (BothCallsReturned /\ seed > 0) => rets[1] = rets[2]

\* two seeded calls with a random start have returned
C1_Witness ==
    /\ BothCallsReturned /\ seed > 0 /\ params.startState = "random"
    /\ rets[1] = rets[2]
    /\ rets[1].x[0] # rets[1].x[1]

\* a loop iteration that draws a Markov transition
TransitionStep == pc = "loop" /\ i >= 1 /\ i' = i + 1

\* the number of equally likely uniform samples that send `from` to `to`
Ways(from, to, weights) ==
    Cardinality({u \in 0..(PDen - 1) :
                    Choice(IF from = "good" THEN transitionStateArray[1]
                           ELSE transitionStateArray[2], weights, u) = to})

\* C9: with params[0] = (p, q), a chain in good moves to bad at the next step
\* with probability p and stays good otherwise, a chain in bad moves to good
\* with probability q and stays bad otherwise; with p = 0 good stays good, with
\* p = 1 good becomes bad at the next step, and likewise for bad with q.
C9_TransitionProbabilities ==
    [][TransitionStep =>
        /\ (MarkovState = "good" /\ params.p = 0) => MarkovState' = "good"
        /\ (MarkovState = "good" /\ params.p = PDen) => MarkovState' = "bad"
        /\ (MarkovState = "bad" /\ params.q = 0) => MarkovState' = "bad"
        /\ (MarkovState = "bad" /\ params.q = PDen) => MarkovState' = "good"
        /\ MarkovState' \in Regimes
        /\ LET tpa == transitionProbabiltyArray(params.p, params.q)
           IN /\ Ways("good", "bad", tpa[1]) = params.p
              /\ Ways("good", "good", tpa[1]) = PDen - params.p
              /\ Ways("bad", "good", tpa[2]) = params.q
              /\ Ways("bad", "bad", tpa[2]) = PDen - params.q
    ]_vars

\* a chain started good with p = 1, q = 0 went bad at step 1 and stayed bad
C9_Witness ==
    /\ pc = "loop" /\ i >= 3
    /\ params.p = PDen /\ params.q = 0 /\ params.startState = "good"
    /\ channelStates[0] = params.coeffs[1]
    /\ channelStates[1] = params.coeffs[2]
    /\ channelStates[2] = params.coeffs[2]
    /\ MarkovState = "bad"

\* C10: in the older file params[0][0] = p is the probability of going from
\* good to bad and params[0][1] = q that of going from bad to good: with p = 0
\* a chain in good stays good, with q = 0 a chain in bad stays bad.
C10_OldTransitionProbabilities ==
    [][TransitionStep =>
        /\ (MarkovState = "good" /\ params.p = 0) => MarkovState' = "good"
        /\ (MarkovState = "bad" /\ params.q = 0) => MarkovState' = "bad"
    ]_vars

-----------------------------------------------------------------------------
(* Claims about ARCoeffecientGeneration                                    *)

\* C2: every matrix returned by ARCoeffecientGeneration has both eigenvalues
\* with complex magnitude <= 1, for all means and noise values, draws whose
\* eigenvalues are a complex-conjugate pair included.
C2_ReturnedMatrixStable ==
    ar_pc = "returned" => ~SpectralRadiusAbove1(arCoeffsMatrix)

\* C3: the rejection loop always terminates: after a bounded number of
\* rejected draws (RetryCeiling of them) it has stopped drawing and failed
\* with an error.
C3_RetriesBounded ==
    rejected >= RetryCeiling => ar_pc = "failed"

-----------------------------------------------------------------------------
(* Claims about toeplitzData                                               *)

TzSequenceLength == SequenceLengthOf(sequenceData)
\* the number of windows an output holds: the length of its last axis
Windows3(out) == Cardinality(DOMAIN out[0][0])
Windows2(out) == Cardinality(DOMAIN out[0])
Written3(out) == \A c \in DOMAIN out : \A k \in DOMAIN out[c] :
                    \A w \in DOMAIN out[c][k] : out[c][k][w] # UninitReal
Written2(out) == \A c \in DOMAIN out : \A w \in DOMAIN out[c] : out[c][w] # UninitReal

\* C4: in toeplitzData of src/gilbertElliot/gilbertElliotDataGen.py, for every
\* window i, finalTrueStates[0:2,i] are the real parts and [2:4,i] the
\* imaginary parts of (x[i+numColumns-1], x[i+numColumns]).
C4_FinalStatesCurrentAndNext ==
    (tz_file = "new" /\ tz_pc = "returned") =>
        \A w \in 0..(NumRows(TzSequenceLength, numColumns) - 1) :
            LET cur == sequenceData.x[w + numColumns - 1]
                nxt == sequenceData.x[w + numColumns]
            IN /\ toeplitzFinalTrueStates[0][w] = Real(cur)
               /\ toeplitzFinalTrueStates[1][w] = Real(nxt)
               /\ toeplitzFinalTrueStates[2][w] = Imag(cur)
               /\ toeplitzFinalTrueStates[3][w] = Imag(nxt)

\* two windows were built from a trajectory whose samples differ around them
C4_Witness ==
    /\ tz_file = "new" /\ tz_pc = "returned"
    /\ NumRows(TzSequenceLength, numColumns) >= 2
    /\ numColumns >= 2
    /\ sequenceData.x[numColumns - 1] # sequenceData.x[numColumns]
    /\ sequenceData.x[numColumns] # sequenceData.x[numColumns + 1]
    /\ toeplitzFinalTrueStates[1][0] = toeplitzFinalTrueStates[0][1]

\* C5: for every trajectory of sequenceLength+1 samples and every numColumns
\* with 1 <= numColumns <= sequenceLength, toeplitzData (either file) does not
\* raise and returns exactly sequenceLength - numColumns + 1 windows in each of
\* its three outputs, every one of them written.
C5_WindowCount ==
    (1 <= numColumns /\ numColumns <= TzSequenceLength) =>
        /\ tz_pc # "raised"
        /\ tz_pc = "returned" =>
            /\ Windows3(toeplitzAllTrueStates) = TzSequenceLength - numColumns + 1
            /\ Windows3(toeplitzObservationStates) = TzSequenceLength - numColumns + 1
            /\ Windows2(toeplitzFinalTrueStates) = TzSequenceLength - numColumns + 1
            /\ tz_i = TzSequenceLength - numColumns + 1
            /\ Written3(toeplitzAllTrueStates)
            /\ Written3(toeplitzObservationStates)
            /\ Written2(toeplitzFinalTrueStates)

\* toeplitzData of the older file returned the windows of a 4-sample trajectory
C5_Witness ==
    /\ tz_file = "old" /\ tz_pc = "returned"
    /\ TzSequenceLength = MaxTzLen /\ numColumns = 2
    /\ Windows2(toeplitzFinalTrueStates) = MaxTzLen - 1

\* C6: toeplitzData raises an error and returns no windows whenever
\* sequenceLength - numColumns + 1 < 1; the test comes before any window is
\* built.
C6_TooWideRaises ==
    (tz_file = "new" /\ TzSequenceLength - numColumns + 1 < 1) =>
        /\ tz_pc \in {"call", "raised"}
        /\ tz_pc = "raised" => tz_error # "none"
        /\ toeplitzObservationStates = << >>
        /\ toeplitzFinalTrueStates = << >>
        /\ toeplitzAllTrueStates = << >>

\* numColumns = sequenceLength + 1 was refused
C6_Witness ==
    /\ tz_file = "new" /\ tz_pc = "raised"
    /\ numColumns = TzSequenceLength + 1

-----------------------------------------------------------------------------
(* Claims about convertToBatched                                           *)

CbSamples == NumSequencesOf(observedData)
CbSeqLength == SeqLengthOf(observedData)

\* batch bi, element b of the two outputs holds original sample n
HoldsSample(bi, b, n) ==
    /\ \A c \in 0..3 : trueState[b][c][bi] = systemData[c][n]
    /\ \A c \in 0..1 : \A s \in 0..(CbSeqLength - 1) :
            measuredState[b][c][s][bi] = observedData[c][s][n]

\* C7: for N a multiple of batchSize, original sample i*batchSize+b is element
\* b of batch i in both outputs, so that the batches read in order (i, then b)
\* are the N samples in their original order.
C7_BatchMapping ==
    (cb_pc = "returned" /\ CbSamples % batchSize = 0) =>
        /\ CBSeries * batchSize = CbSamples
        /\ \A bi \in 0..(CBSeries - 1) : \A b \in 0..(batchSize - 1) :
                HoldsSample(bi, b, bi * batchSize + b)

\* four samples were returned as two batches of two
C7_Witness ==
    /\ cb_pc = "returned"
    /\ CbSamples = 4 /\ batchSize = 2 /\ CbSeqLength = 2
    /\ HoldsSample(1, 1, 3)

\* C8: called with a number of samples that is not a multiple of batchSize,
\* convertToBatched fails with an error; it never returns a batched result
\* from which some of the samples are missing.
C8_NonDivisibleFails ==
    (CbSamples % batchSize # 0) =>
        /\ cb_pc # "returned"
        /\ cb_pc = "returned" =>
             \A n \in 0..(CbSamples - 1) :
                \E bi \in 0..(CBSeries - 1), b \in 0..(batchSize - 1) : HoldsSample(bi, b, n)


-----------------------------------------------------------------------------
(* GilEllDataGen: the Markov state, the recursion, the draw order, the     *)
(* shapes and the out-of-range probabilities                               *)

\* C11: for every start policy in {good, bad, random} and all p, q in [0,1],
\* the Markov state is good or bad at every step 0..sequenceLength, every
\* recorded coefficient pair is that of a regime, and the "outside the
\* defined Markov States" exception is never raised.
C11_MarkovStateClosed ==
    /\ ge_error # "Exception"
    /\ pc # "raised"
    /\ pc = "loop" =>
        /\ MarkovState \in Regimes
        /\ \A k \in 0..(i - 1) : channelStates[k] \in {params.coeffs[1], params.coeffs[2]}

\* a random start that went good -> bad within the longest sequence
C11_Witness ==
    /\ pc = "loop"
    /\ params.startState = "random"
    /\ params.sequenceLength = MaxSeqLen
    /\ i = LoopSteps(params.sequenceLength)
    /\ channelStates[0] = params.coeffs[1]
    /\ MarkovState = "bad"

\* the steps of the current call that have been recorded
RecordedSteps == IF pc \in {"loop", "idle"} /\ x # << >> THEN 0..(i - 1) ELSE {}

\* a1 * s + a2 * t for a coefficient pair and two complex samples
Recursion(coeffs, s, t) == CAdd(CScale(coeffs[1], s), CScale(coeffs[2], t))

LoopStepTaken == pc = "loop" /\ pc' = "loop" /\ i' = i + 1

\* C15: in every loop step the generator is consumed in the order Markov
\* transition draw (steps > 0), process-noise draws, observation-noise
\* draws, with no other draw between them: with b the number of transition
\* draws, draw b+1 and b+3 make the real and imaginary process noise of the
\* state, draws b+5 and b+6 the observation noise.
C15_DrawOrder ==
    [][LoopStepTaken =>
        LET b == IF i = 0 THEN 0 ELSE 1
            d == RngSeq(rng, b + 6)
            tpa == transitionProbabiltyArray(params.p, params.q)
        IN /\ i > 0 => MarkovState' =
                    Choice(IF MarkovState = "good" THEN <<"good", "bad">> ELSE <<"bad", "good">>,
                           IF MarkovState = "good" THEN tpa[1] ELSE tpa[2], Uniform(d[1]))
           /\ v_all'[i] = << <<params.sqrtQ * Randn(d[b + 1]), params.sqrtQ * Randn(d[b + 3])>>,
                            CZero >>
           /\ w_all'[i] = <<params.sqrtR * Randn(d[b + 5]), params.sqrtR * Randn(d[b + 6])>>
           /\ i > 0 => rng' = d[b + 6]
    ]_vars

\* a step after the first whose process and observation noise differ
C15_Witness ==
    /\ pc = "loop" /\ i = 2
    /\ v_all[1][1] # w_all[1]
    /\ v_all[1][1] # CZero

AllWritten(arr, n) == DOMAIN arr = 0..(n - 1) /\ \A k \in DOMAIN arr : arr[k] # Uninit

\* C16: for every sequenceLength > 0 the returned x, z and channelStates
\* have exactly sequenceLength+1 columns, all written, one per step: while
\* the loop runs the columns written are exactly those of the steps taken.
C16_ColumnPerStep ==
    /\ \A n \in 1..Len(rets) :
        /\ AllWritten(rets[n].x, params.sequenceLength + 1)
        /\ AllWritten(rets[n].z, params.sequenceLength + 1)
        /\ AllWritten(rets[n].channelStates, params.sequenceLength + 1)
    /\ pc = "loop" =>
        \A k \in 0..params.sequenceLength :
            /\ (k < i) <=> (x[k] # Uninit)
            /\ (k < i) <=> (z[k] # Uninit)
            /\ (k < i) <=> (channelStates[k] # Uninit)

C16_Witness ==
    /\ Len(rets) = 1
    /\ params.sequenceLength = MaxSeqLen
    /\ i = MaxSeqLen + 1

\* C19: called with p or q outside [0,1], GilEllDataGen fails before any
\* trajectory sample is generated and never returns a trajectory.
C19_InvalidProbabilityFailsFirst ==
    (pc # "off" /\ (params.p \notin 0..PDen \/ params.q \notin 0..PDen)) =>
        /\ rets = << >>
        /\ \A k \in DOMAIN x : x[k] = Uninit


\* C14: two GilEllDataGen runs with distinct positive seeds whose loop
\* steps interleave each return the trajectory the run returns when it
\* executes alone.
C14_InterleavedRunsMatchAlone ==
    \A r \in DOMAIN runs :
        runs[r].pc = "returned" =>
            Returned(runs[r]) = Returned(RunAlone(run_params, runs[r].seed, 0))


-----------------------------------------------------------------------------
(* toeplitzData: the error of a refused window size, the observation       *)
(* windows                                                                 *)

\* C18: when toeplitzData (either file) refuses a window size, the error
\* that reaches the caller is the Exception built at the numRows test, and
\* its message has a field for the sequence length (argument 0) and one for
\* the number of columns (argument 1).
C18_DomainErrorReachesCaller ==
    (tz_pc = "raised" /\ RejectsWindow(NumRows(TzSequenceLength, numColumns))) =>
        /\ tz_error = "Exception"
        /\ MessageArgs \subseteq MessageFields

\* C20: in toeplitzData of src/gilbertElliot/gilbertElliotDataGen.py, for
\* every window i and every k in 0..numColumns-1,
\* toeplitzObservationStates[0,k,i] and [1,k,i] are the real and imaginary
\* parts of z[i+k]; window i+1 is window i shifted by one sample, and
\* z[sequenceLength] is read by no window (i+k < sequenceLength).
C20_ObservationWindows ==
    (tz_file = "new" /\ tz_pc = "returned") =>
        LET numRows == NumRows(TzSequenceLength, numColumns)
            obs == toeplitzObservationStates
        IN /\ \A w \in 0..(numRows - 1) : \A k \in 0..(numColumns - 1) :
                /\ obs[0][k][w] = Real(sequenceData.z[w + k])
                /\ obs[1][k][w] = Imag(sequenceData.z[w + k])
                /\ w + k < TzSequenceLength
           /\ \A w \in 0..(numRows - 2) : \A k \in 0..(numColumns - 2) : \A c \in 0..1 :
                obs[c][k][w + 1] = obs[c][k + 1][w]

\* two windows of two observations over samples that differ
C20_Witness ==
    /\ tz_file = "new" /\ tz_pc = "returned"
    /\ numColumns = 2
    /\ NumRows(TzSequenceLength, numColumns) = 2
    /\ sequenceData.z[0] # sequenceData.z[1]
    /\ sequenceData.z[1] # sequenceData.z[2]
    /\ sequenceData.z[2] # sequenceData.z[3]
    /\ toeplitzObservationStates[0][1][1] = Real(sequenceData.z[2])


-----------------------------------------------------------------------------
(* ARDatagenMismatch: the first step and the layout of the outputs         *)

\* C13: ARDatagenMismatch follows the per-step rule of GilEllDataGen: after
\* step 0 of an element the observation is the step-0 true state plus the
\* observation noise drawn at step 0.
C13_StepZeroObservation ==
    (mm_pc = "sequence" /\ mm_m = 1) =>
        z_complex = <<x_complex[1][1] + mm_w[1], x_complex[1][2] + mm_w[2]>>

\* one completed iteration of the loop over m, for element (mm_j, mm_i)
SequenceStepTaken == mm_pc = "sequence" /\ mm_m' = mm_m + 1

\* C17: for every batch element j and series i, x[j,0,i] and x[j,2,i] are
\* the real and imaginary parts of the true state at step sequenceLength-1,
\* x[j,1,i] and x[j,3,i] those of the true state at step sequenceLength,
\* and z[j,0,m,i], z[j,1,m,i] those of the observation of step m for m in
\* 0..sequenceLength-1; no step writes a cell of another (j, m, i).
C17_OutputLayout ==
    [][SequenceStepTaken =>
        LET sequenceLength == mm_params.sequenceLength
            state(m, c) == all_xs'[mm_j][0][c][m][mm_i]
        IN /\ mm_m < sequenceLength =>
                /\ mm_z'[mm_j][0][mm_m][mm_i] = z_complex'[1]
                /\ mm_z'[mm_j][1][mm_m][mm_i] = z_complex'[2]
                /\ mm_x' = mm_x
           /\ mm_m = sequenceLength =>
                /\ mm_x'[mm_j][0][mm_i] = state(sequenceLength - 1, 0)
                /\ mm_x'[mm_j][2][mm_i] = state(sequenceLength - 1, 1)
                /\ mm_x'[mm_j][1][mm_i] = state(sequenceLength, 0)
                /\ mm_x'[mm_j][3][mm_i] = state(sequenceLength, 1)
                /\ mm_z' = mm_z
           /\ \A j \in DOMAIN mm_x : \A s \in DOMAIN mm_x[j][0] :
                <<j, s>> # <<mm_j, mm_i>> =>
                    /\ \A row \in 0..3 : mm_x'[j][row][s] = mm_x[j][row][s]
                    /\ \A c \in 0..1 : \A m \in DOMAIN mm_z[j][c] :
                            mm_z'[j][c][m][s] = mm_z[j][c][m][s]
           /\ \A c \in 0..1 : \A m \in DOMAIN mm_z[mm_j][c] :
                m # mm_m => mm_z'[mm_j][c][m][mm_i] = mm_z[mm_j][c][m][mm_i]
    ]_vars

\* the call returned two series of two elements whose current and next
\* states differ
C17_Witness ==
    /\ mm_pc = "returned"
    /\ mm_params.batchSize >= 2 /\ mm_params.simLength = 2
    /\ mm_params.sequenceLength = 2
    /\ mm_x[1][0][1] # mm_x[1][1][1]
    /\ mm_x[1][0][1] # 0
    /\ mm_z[1][0][1][1] # 0

-----------------------------------------------------------------------------
(* Claims about toeplitzData of the older src/gilbertElliotDataGen.py      *)

\* C29: in toeplitzData of src/gilbertElliotDataGen.py, for every row i the
\* final true states are the state at the index of the row's last observation
\* (i+numColumns-1) and the state one step later (i+numColumns): two distinct
\* samples, both inside the trajectory.
C29_OldFinalStatesCurrentAndNext ==
    (tz_file = "old" /\ tz_pc = "returned") =>
        \A w \in 0..(NumRows(TzSequenceLength, numColumns) - 1) :
            LET cur == sequenceData.x[w + numColumns - 1]
                nxt == sequenceData.x[w + numColumns]
            IN /\ w + numColumns <= TzSequenceLength
               /\ toeplitzFinalTrueStates[0][w] = Real(cur)
               /\ toeplitzFinalTrueStates[1][w] = Real(nxt)
               /\ toeplitzFinalTrueStates[2][w] = Imag(cur)
               /\ toeplitzFinalTrueStates[3][w] = Imag(nxt)

-----------------------------------------------------------------------------
(* Claims about matSave                                                    *)

\* the numbers n for which directory/basename{n}.mat exists
Taken == { n \in 1..(MaxFiles + 2) :
             PathExists(ms_files, LogNameOf(ms_args.directory, ms_args.basename, n)) }

\* C24: matSave writes to directory/basename{n}.mat with n the smallest
\* positive integer for which no such file exists when it runs; the write
\* creates that file and leaves every existing file as it was; and the search
\* ends: the call returns.
C24_SmallestFreeName ==
    /\ [][ms_pc = "save" =>
            /\ logNumber >= 1
            /\ logName = LogNameOf(ms_args.directory, ms_args.basename, logNumber)
            /\ logNumber \notin Taken
            /\ \A m \in 1..(logNumber - 1) : m \in Taken
            /\ DOMAIN ms_files' = (DOMAIN ms_files) \cup {logName}
            /\ \A f \in DOMAIN ms_files : ms_files'[f] = ms_files[f]
            /\ ms_files'[logName] = "data"
            /\ ms_ret' = logName]_vars
    /\ <>(ms_pc = "returned")

\* files 1 and 3 of the basename existed, file 2 did not and is the one written
C24_Witness ==
    /\ ms_pc = "returned"
    /\ logNumber = 2
    /\ ms_files[LogNameOf(ms_args.directory, ms_args.basename, 1)] = "old"
    /\ PathExists(ms_files, LogNameOf(ms_args.directory, ms_args.basename, 3))
    /\ ms_files[ms_ret] = "data"

-----------------------------------------------------------------------------
(* Claims about the TCN estimator's log file                               *)

HasLogName(p) == est_pc[p] \in {"chosen", "training", "done"}

\* C27: two TCN estimator processes that run at the same time in the same
\* directory never select the same log file name, in any interleaving of
\* their exists-tests and writes.
C27_DistinctLogNames ==
    \A p \in Estimators : \A q \in Estimators :
        (p # q /\ HasLogName(p) /\ HasLogName(q)) => est_logName[p] # est_logName[q]

-----------------------------------------------------------------------------
(* Claims about the epoch loop of the TCN estimator                        *)

\* the lowest evaluation loss of the epochs run so far
LowestLoss == CHOOSE l \in Losses :
                 /\ \E e \in DOMAIN evaluated : evaluated[e] = l
                 /\ \A e \in DOMAIN evaluated : l <= evaluated[e]
\* the last epoch that reached it
LastBestEpoch == CHOOSE e \in DOMAIN evaluated :
                    /\ evaluated[e] = LowestLoss
                    /\ \A f \in DOMAIN evaluated : evaluated[f] = LowestLoss => f <= e

\* C28: after the epoch loop bestloss is the lowest evaluation loss of all
\* epochs, and the model that is tested, modelBEST, has the parameters the
\* model had at the end of the last epoch that reached that loss.
C28_BestModelKept ==
    tcn_pc = "tested" =>
        /\ bestloss = LowestLoss
        /\ tcn_heap[modelBEST] = trained[LastBestEpoch]
        /\ tested = <<trained[LastBestEpoch]>>

-----------------------------------------------------------------------------
(* Claims about GilEllTrainingDataGen                                      *)

TgColumns == 0..(tg_args.numSequences * 2 - 1)
\* the sequence a column holds: the last one written to it
Holds(col) == tg_writes[col][Len(tg_writes[col])]
\* column col of the returned observationStates, whatever np.squeeze left of it
ObsColumn(col) ==
    LET obs == tg_ret[2]
    IN IF tg_args.sequenceLength = 1
       THEN [c \in 0..1 |-> <<obs[c][col]>>]
       ELSE [c \in 0..1 |-> [k \in 1..tg_args.sequenceLength |-> obs[c][k - 1][col]]]

\* C30: GilEllTrainingDataGen returns 2*numSequences sequences, numSequences
\* good ones and numSequences bad ones: every output column is written
\* exactly once, and column k of finalTrueStates, observationStates and
\* allTrueStates holds the one generated sequence.
C30_EverySequenceKept ==
    tg_pc = "returned" =>
        LET L == tg_args.sequenceLength
            N == tg_args.numSequences
        IN /\ \A col \in TgColumns : Len(tg_writes[col]) = 1
           /\ Cardinality({col \in TgColumns : Len(tg_writes[col]) >= 1
                                               /\ Holds(col).regime = "good"}) = N
           /\ Cardinality({col \in TgColumns : Len(tg_writes[col]) >= 1
                                               /\ Holds(col).regime = "bad"}) = N
           /\ \A col \in TgColumns : Len(tg_writes[col]) >= 1 =>
                 LET sd == Holds(col).data
                 IN /\ ObsColumn(col)[0] = Reals(PySlice(sd.z, 0, L))
                    /\ ObsColumn(col)[1] = Imags(PySlice(sd.z, 0, L))
                    /\ \A k \in 0..L : /\ tg_ret[1][0][k][col] = Real(sd.x[k])
                                       /\ tg_ret[1][1][k][col] = Imag(sd.x[k])
                    /\ tg_ret[3][0][col] = Real(sd.x[L - 1])
                    /\ tg_ret[3][1][col] = Real(sd.x[L])
                    /\ tg_ret[3][2][col] = Imag(sd.x[L - 1])
                    /\ tg_ret[3][3][col] = Imag(sd.x[L])

-----------------------------------------------------------------------------
(* Claims about GilElDataGenWrapper                                        *)

\* C23: for all numSequences >= 1 and sequenceLength >= 1 the wrapper
\* generates a trajectory of numSequences + sequenceLength - 1 steps, the
\* windowing does not fail, and the data returned holds exactly numSequences
\* windows, each of sequenceLength observations and sequenceLength + 1 true
\* states.
C23_WindowsAsRequested ==
    /\ wr_pc # "raised"
    /\ wr_pc \in {"generated", "windowing", "saving", "returned"} =>
          SequenceLengthOf(longSequence) = wr_args.numSequences + wr_args.sequenceLength - 1
    /\ wr_pc \in {"saving", "returned"} =>
          /\ wr_data.error = "none"
          /\ Windows3(wr_data.observationStates) = wr_args.numSequences
          /\ Windows3(wr_data.allTrueStates) = wr_args.numSequences
          /\ Windows2(wr_data.finalTrueStates) = wr_args.numSequences
          /\ DOMAIN wr_data.observationStates[0] = 0..(wr_args.sequenceLength - 1)
          /\ DOMAIN wr_data.allTrueStates[0] = 0..wr_args.sequenceLength
          /\ Written3(wr_data.observationStates)
          /\ Written3(wr_data.allTrueStates)
          /\ Written2(wr_data.finalTrueStates)

\* a call for two windows of two observations has returned them
C23_Witness ==
    /\ wr_pc = "returned"
    /\ wr_args.numSequences = 2 /\ wr_args.sequenceLength = 2
    /\ Windows3(wr_data.observationStates) = 2
    /\ DOMAIN wr_data.allTrueStates[0] = 0..2
    /\ PathExists(ms_files, wr_info.filename)

\* C25: when GilElDataGenWrapper is called without an initTest argument, the
\* trajectory handed to toeplitzData is the one GilEllDataGen returned: the
\* step between the generation and the windowing leaves every true state,
\* observation and channel coefficient as it was.
C25_TrajectoryHandedOnUnchanged ==
    [][(wr_pc = "generated" /\ wr_args.initTest = "absent")
            => longSequence' = longSequence]_vars

-----------------------------------------------------------------------------
(* Claims about GilElTestDataGen                                           *)

\* the channelCoefficients reported for subset k
ReportedCoefficients(k) == testDataInfo[k + 1].channelCoefficients

\* C26: in GilElTestDataGen every column of the channelCoefficients reported
\* for subset 1 equals goodCoefficients and every column reported for subset
\* 2 equals badCoefficients.
C26_SubsetCoefficients ==
    /\ Len(testDataInfo) >= 2 =>
          \A col \in DOMAIN ReportedCoefficients(1) :
              ReportedCoefficients(1)[col] = td_args.coeffs[1]
    /\ Len(testDataInfo) >= 3 =>
          \A col \in DOMAIN ReportedCoefficients(2) :
              ReportedCoefficients(2)[col] = td_args.coeffs[2]

-----------------------------------------------------------------------------
(* Claims about the Riccati block of GilEllDataGen                         *)

\* the calls made so far that returned
ReturnedCalls == { c \in DOMAIN rc_rets : rc_rets[c].error = "none" }

\* C21: for each regime whose matrix has spectral radius below 1, with
\* Q_diag > 0 and R > 0, the returned riccatiConvergences row has
\* 0 <= estimation MSE <= prediction MSE.
C21_EstimateWithinPrediction ==
    \A c \in ReturnedCalls : \A r \in 0..1 :
        (/\ SpectralRadiusBelowOne(rc_rets[c].args.coeffs[r + 1])
         /\ rc_rets[c].args.Q_diag > 0 /\ rc_rets[c].args.R > 0)
        => /\ FracLeq(Frac(0), rc_rets[c].riccatiConvergences[r][1])
           /\ FracLeq(rc_rets[c].riccatiConvergences[r][1], rc_rets[c].riccatiConvergences[r][0])

\* a call returned a stable regime's row with a positive estimation MSE
\* strictly below the prediction MSE
C21_Witness ==
    \E c \in ReturnedCalls : \E r \in 0..1 :
        /\ SpectralRadiusBelowOne(rc_rets[c].args.coeffs[r + 1])
        /\ FracLess(Frac(0), rc_rets[c].riccatiConvergences[r][1])
        /\ FracLess(rc_rets[c].riccatiConvergences[r][1], rc_rets[c].riccatiConvergences[r][0])

\* the inputs the matrix is claimed to depend on
RiccatiInputs(a) == <<a.coeffs, a.Q_diag, a.R>>

\* C22: two calls of GilEllDataGen that agree on the regimes' AR
\* coefficients, Q_diag and R return the same riccatiConvergences, whatever
\* their seed, transition probabilities, start policy and sequence length,
\* and the generation loop does not change the matrix.
C22_MatrixDependsOnlyOnRegimesAndNoise ==
    /\ [](\A c1 \in ReturnedCalls, c2 \in ReturnedCalls :
            RiccatiInputs(rc_rets[c1].args) = RiccatiInputs(rc_rets[c2].args)
            => rc_rets[c1].riccatiConvergences = rc_rets[c2].riccatiConvergences)
    /\ [][rc_pc = "loop" => riccatiConvergences' = riccatiConvergences]_vars
    /\ [](\A c \in ReturnedCalls : \A r \in 0..1 :
            rc_rets[c].riccatiConvergences[r] =
                ConvergenceRow(rc_solved[SolverArgs(rc_rets[c].args, r + 1)],
                               RMatrix(rc_rets[c].args.R)))

\* two calls that agree on coefficients and noise and differ in seed,
\* transition probabilities, start policy and length have both returned
C22_Witness ==
    /\ ReturnedCalls = {1, 2}
    /\ RiccatiInputs(rc_rets[1].args) = RiccatiInputs(rc_rets[2].args)
    /\ rc_rets[1].args.randSeed # rc_rets[2].args.randSeed
    /\ rc_rets[1].args.p # rc_rets[2].args.p
    /\ rc_rets[1].args.startState # rc_rets[2].args.startState
    /\ rc_rets[1].args.sequenceLength # rc_rets[2].args.sequenceLength
    /\ DOMAIN rc_rets[1].x # DOMAIN rc_rets[2].x
    /\ FracLess(Frac(0), rc_rets[1].riccatiConvergences[0][0])

=============================================================================
